---- MODULE Spec2Model ----
(***************************************************************************)
(* Receipt processor: field validators, receipt validator, in-memory       *)
(* receipt store guarded by a sync.RWMutex, points calculator and the two  *)
(* HTTP handlers (processReceiptHandler, getPointsHandler).                *)
(*                                                                         *)
(* Strings are sequences of one-character strings; a float32 is the record *)
(* [neg, m, e] standing for (-1)^neg * m * 2^e with m = 0 (and e = 0) or   *)
(* 2^23 <= m < 2^24, so that equal values are equal records.               *)
(***************************************************************************)
EXTENDS Integers, Sequences, FiniteSets, TLC

(***************************************************************************)
(* Characters and strings                                                  *)
(***************************************************************************)

\* The printable ASCII characters in code-point order, from 32 (space); "{grave}"
\* stands for the grave accent (96), which a TLA+ string cannot hold.
Printable ==
  << " ", "!", "\"", "#", "$", "%", "&", "'", "(", ")", "*", "+", ",", "-", ".", "/",
     "0", "1", "2", "3", "4", "5", "6", "7", "8", "9", ":", ";", "<", "=", ">", "?",
     "@", "A", "B", "C", "D", "E", "F", "G", "H", "I", "J", "K", "L", "M", "N", "O",
     "P", "Q", "R", "S", "T", "U", "V", "W", "X", "Y", "Z", "[", "\\", "]", "^", "_",
     "{grave}", "a", "b", "c", "d", "e", "f", "g", "h", "i", "j", "k", "l", "m", "n", "o",
     "p", "q", "r", "s", "t", "u", "v", "w", "x", "y", "z", "{", "|", "}", "~" >>

\* The code point of every character of the model's alphabet (tab and newline added).
OrdTable ==
  LET Codes(chars) ==
        [c \in {chars[i] : i \in 1..Len(chars)} \cup {"\t", "\n"} |->
           IF c = "\t" THEN 9
           ELSE IF c = "\n" THEN 10
           ELSE 31 + (CHOOSE i \in 1..Len(chars) : chars[i] = c)]
  IN  Codes(Printable)

Ord(c) == OrdTable[c]

\* lo <= o <= hi
Within(o, lo, hi) == lo <= o /\ o <= hi

\* regexp class \d
IsDigit(c) == Within(Ord(c), 48, 57)

\* [0-9A-Za-z_] on code points
IsWordCode(o) ==
  Within(o, 48, 57) \/ Within(o, 65, 90) \/ Within(o, 97, 122) \/ o = 95

\* regexp class \w: [0-9A-Za-z_]
IsWord(c) == IsWordCode(Ord(c))

\* regexp class \s: [\t\n\f\r ]
IsSpaceRX(c) == Ord(c) \in {9, 10, 12, 13, 32}

\* unicode.IsSpace on the Latin-1 range, as strings.TrimSpace uses it
IsSpace(c) == Ord(c) \in {9, 10, 11, 12, 13, 32, 133, 160}

\* A trim of the leading white space only
TrimSpaceLeading(s) ==
  LET From(keep) ==
        IF keep = {} THEN << >>
        ELSE SubSeq(s, CHOOSE i \in keep : \A j \in keep : i <= j, Len(s))
  IN  From({i \in 1..Len(s) : ~IsSpace(s[i])})

\* strings.TrimSpace: s without its leading and trailing white space
TrimSpace(s) ==
  LET Between(keep) ==
        IF keep = {} THEN << >>
        ELSE SubSeq(s, CHOOSE i \in keep : \A j \in keep : i <= j,
                       CHOOSE i \in keep : \A j \in keep : j <= i)
  IN  Between({i \in 1..Len(s) : ~IsSpace(s[i])})

DigitVal(c) == Ord(c) - 48

(***************************************************************************)
(* float32 amounts                                                         *)
(*                                                                         *)
(* TLC's integers are 32 bits wide, so a decimal amount is held as its     *)
(* sequence of decimal digits (most significant first) until it has been   *)
(* scaled into the 24-bit mantissa range, and the 53-bit product of the    *)
(* description rule is computed on base-4096 limbs.                        *)
(***************************************************************************)

Pow2(n) == 2 ^ n

F32Zero == [neg |-> FALSE, m |-> 0, e |-> 0]

\* The float32 with value m * 2^e for a mantissa 0 <= m < 2^24 (the exact result of
\* an operation whose value has at most 24 significant bits).
RECURSIVE F32Normalize(_, _, _)
F32Normalize(neg, m, e) ==
  IF m = 0 THEN [neg |-> neg, m |-> 0, e |-> 0]
  ELSE IF m < Pow2(23) THEN F32Normalize(neg, 2 * m, e - 1)
  ELSE [neg |-> neg, m |-> m, e |-> e]

\* Go's == on float32 (no NaN arises here): -0 equals +0.
F32Eq(a, b) == (a.m = 0 /\ b.m = 0) \/ a = b

\* x < 0.0
F32Negative(x) == x.neg /\ x.m # 0

RECURSIVE StripZeros(_)
StripZeros(ds) ==
  IF Len(ds) > 1 /\ Head(ds) = 0 THEN StripZeros(Tail(ds)) ELSE ds

\* a >= b for digit sequences without leading zeros
RECURSIVE DecGE(_, _)
DecGE(a, b) ==
  IF Len(a) # Len(b) THEN Len(a) > Len(b)
  ELSE IF a = << >> THEN TRUE
  ELSE IF Head(a) # Head(b) THEN Head(a) > Head(b)
  ELSE DecGE(Tail(a), Tail(b))

RECURSIVE DecToInt(_, _)
DecToInt(ds, acc) ==
  IF ds = << >> THEN acc ELSE DecToInt(Tail(ds), 10 * acc + Head(ds))

\* ds divided by k (0 < k <= 4096): the quotient's digits and the remainder
RECURSIVE DivDec(_, _, _, _)
DivDec(ds, k, carry, acc) ==
  IF ds = << >> THEN [q |-> StripZeros(acc), r |-> carry]
  ELSE LET cur == 10 * carry + Head(ds)
       IN  DivDec(Tail(ds), k, cur % k, Append(acc, cur \div k))

\* 100 * 2^24 as digits: below it a number of cents has a quotient by 100 under 2^24
CentsLimit == << 1, 6, 7, 7, 7, 2, 1, 6, 0, 0 >>

\* 100 * 2^24 * 2^12 as digits: at or above it, twelve halvings are made in one division
CentsLimit12 == << 6, 8, 7, 1, 9, 4, 7, 6, 7, 3, 6, 0, 0 >>

\* Halve ds until it is below 100 * 2^24: n = ds \div 2^e, sticky = a one was shifted out
RECURSIVE ShiftDown(_, _, _)
ShiftDown(ds, e, sticky) ==
  LET Halved(h, by) == ShiftDown(h.q, e + by, sticky \/ h.r # 0)
  IN  IF DecGE(ds, CentsLimit12) THEN Halved(DivDec(ds, Pow2(12), 0, << >>), 12)
      ELSE IF DecGE(ds, CentsLimit) THEN Halved(DivDec(ds, 2, 0, << >>), 1)
      ELSE [n |-> DecToInt(ds, 0), e |-> e, sticky |-> sticky]

\* Double n > 0 until it is at least 100 * 2^23
RECURSIVE ScaleUp(_, _)
ScaleUp(n, e) ==
  IF n >= 100 * Pow2(23) THEN [n |-> n, e |-> e] ELSE ScaleUp(2 * n, e - 1)

\* The float32 nearest to cents / 100, ties to even (the correctly rounded
\* conversion strconv.ParseFloat(s, 32) makes), for cents given as digits.
F32FromCents(cents) ==
  LET Carried(m, e) ==
        IF m = Pow2(24) THEN [neg |-> FALSE, m |-> Pow2(23), e |-> e + 1]
        ELSE [neg |-> FALSE, m |-> m, e |-> e]
      Rounded(q, r, sticky, e) ==
        Carried(IF r > 50 \/ (r = 50 /\ (sticky \/ q % 2 = 1)) THEN q + 1 ELSE q, e)
      Scaled(u, sticky) == Rounded(u.n \div 100, u.n % 100, sticky, u.e)
      Shifted(d) ==
        Scaled(IF d.e = 0 THEN ScaleUp(d.n, 0) ELSE [n |-> d.n, e |-> d.e], d.sticky)
      Stripped(z) == IF z = << 0 >> THEN F32Zero ELSE Shifted(ShiftDown(z, 0, FALSE))
  IN  Stripped(StripZeros(cents))

\* strconv.ParseFloat(s, 32) on a string of the form digits '.' two digits (the only
\* strings it is called with): the nearest float32, or a range error when the value
\* rounds to 2^128 or more.
ParseFloat32(s) ==
  LET InRange(v) ==
        IF v.e > 104 THEN [err |-> "ErrRange", val |-> F32Zero]
        ELSE [err |-> "nil", val |-> v]
  IN  InRange(F32FromCents([i \in 1..(Len(s) - 1) |->
                              DigitVal(IF i <= Len(s) - 3 THEN s[i] ELSE s[i + 1])]))

\* The build's GOARCH: a float-to-integer conversion whose value the integer type
\* cannot hold is implementation-dependent (Go specification, Conversions).
GoArchs == {"amd64", "arm64"}

\* |x| < 2^63, or x = -2^63: int(x) holds x's integer part
FitsInt64(x) ==
  x.m = 0 \/ x.e <= 39 \/ (x.neg /\ x.m = Pow2(23) /\ x.e = 40)

\* float32(int(x)) for a float32 x and the 64-bit int of the supported builds:
\* int(x) truncates toward zero, and an integer of at most 24 significant bits
\* converts back exactly. Out of range, amd64's CVTTSS2SQ gives the integer
\* indefinite value -2^63 and arm64's FCVTZS saturates (2^63 - 1 rounds to 2^63).
Float32OfIntOf(x, arch) ==
  IF FitsInt64(x)
  THEN IF x.e >= 0 THEN x
       ELSE IF x.e <= -24 THEN F32Zero
       ELSE LET Whole(t) == IF t.m = 0 THEN F32Zero ELSE t
            IN  Whole(F32Normalize(x.neg, x.m \div Pow2(-x.e), 0))
  ELSE IF arch = "amd64" \/ x.neg
       THEN [neg |-> TRUE, m |-> Pow2(23), e |-> 40]
       ELSE [neg |-> FALSE, m |-> Pow2(23), e |-> 40]

\* math.Mod(float64(x), 0.25) == 0: the conversion and the remainder are exact, so
\* this is "x is a multiple of 2^-2"
ModQuarterIsZero(x) ==
  \/ x.m = 0
  \/ x.e >= -2
  \/ (x.e > -26 /\ x.m % Pow2(-x.e - 2) = 0)

\* The float64 constant 0.2 is PointTwoLimbs * 2^-54, the limbs being base-4096
\* digits, least significant first (0x0CCCCCCCCCCCCD).
PointTwoLimbs == << 3277, 3276, 3276, 3276, 12 >>

LimbAt(limbs, i) == IF i >= 1 /\ i <= Len(limbs) THEN limbs[i] ELSE 0

\* The exact product a * b of two limb sequences, as limbs
RECURSIVE MulCarry(_, _, _, _)
MulCarry(a, b, k, carry) ==
  IF k > Len(a) + Len(b) THEN << >>
  ELSE LET RECURSIVE Col(_)
           Col(i) == IF i > Len(a) THEN 0
                     ELSE a[i] * LimbAt(b, k + 1 - i) + Col(i + 1)
           Limb(t) == << t % Pow2(12) >> \o MulCarry(a, b, k + 1, t \div Pow2(12))
       IN  Limb(Col(1) + carry)

\* Bit t (from 0) of a limb sequence
BitAt(limbs, t) ==
  (LimbAt(limbs, (t \div 12) + 1) \div Pow2(t % 12)) % 2

\* The number of significant bits of a limb sequence
BitLen(limbs) ==
  LET Top(ones) == IF ones = {} THEN 0 ELSE 1 + CHOOSE t \in ones : \A u \in ones : u <= t
  IN  Top({t \in 0..(12 * Len(limbs) - 1) : BitAt(limbs, t) = 1})

\* The integer the bits from..to-1 of a limb sequence spell
RECURSIVE BitsValue(_, _, _)
BitsValue(limbs, from, to) ==
  IF from >= to THEN 0
  ELSE BitAt(limbs, from) + 2 * BitsValue(limbs, from + 1, to)

\* int64(math.Ceil(float64(x) * 0.2)) for a float32 x with |x| < 5 * 2^30: the exact
\* product of the two mantissas is rounded to float64's 53 bits (nearest, ties to
\* even) and then rounded up to an integer (toward zero for a negative x).
CeilTimesPointTwo(x) ==
  IF x.m = 0 THEN 0
  ELSE
    LET \* floor: the rounded product's integer part; exact: it has no fraction
        Ceil(floor, exact) ==
          IF x.neg THEN -floor
          ELSE IF exact THEN floor ELSE floor + 1
        \* hi: integer part of the kept bits; up: the rounding adds one to them;
        \* fracZ, fracO: the kept fraction bits are all zero, all one
        Round(hi, up, fracZ, fracO) ==
          Ceil(IF up /\ fracO THEN hi + 1 ELSE hi, IF up THEN fracO ELSE fracZ)
        \* d: the bits the rounding drops (22 or 23); pt: the binary point's place
        Cut(p, len, d, pt) ==
          Round(BitsValue(p, pt, len),
                BitAt(p, d - 1) = 1
                  /\ ((\E t \in 0..(d - 2) : BitAt(p, t) = 1) \/ BitAt(p, d) = 1),
                \A t \in d..(pt - 1) : BitAt(p, t) = 0,
                \A t \in d..(pt - 1) : BitAt(p, t) = 1)
        Measured(p, len) == Cut(p, len, len - 53, 54 - x.e)
        Product(p) == Measured(p, BitLen(p))
    IN  Product(MulCarry(<< x.m % Pow2(12), x.m \div Pow2(12) >>, PointTwoLimbs, 1, 0))

(***************************************************************************)
(* time.Time values, to the minute, in UTC                                 *)
(***************************************************************************)

Date(y, mo, d, h, mi) == [Y |-> y, M |-> mo, D |-> d, h |-> h, mi |-> mi]

\* time.Time{}: January 1, year 1, 00:00 UTC
ZeroTime == Date(1, 1, 1, 0, 0)

IsZero(t) == t = ZeroTime

\* t.Before(u)
Before(t, u) ==
  \/ t.Y < u.Y
  \/ (t.Y = u.Y /\ t.M < u.M)
  \/ (t.Y = u.Y /\ t.M = u.M /\ t.D < u.D)
  \/ (t.Y = u.Y /\ t.M = u.M /\ t.D = u.D /\ t.h < u.h)
  \/ (t.Y = u.Y /\ t.M = u.M /\ t.D = u.D /\ t.h = u.h /\ t.mi < u.mi)

IsLeap(y) == y % 4 = 0 /\ (y % 100 # 0 \/ y % 400 = 0)

DaysIn(y, mo) ==
  IF mo = 2 THEN (IF IsLeap(y) THEN 29 ELSE 28)
  ELSE IF mo \in {4, 6, 9, 11} THEN 30
  ELSE 31

TwoDigits(s, i) == 10 * DigitVal(s[i]) + DigitVal(s[i + 1])

\* time.Parse("2006-01-02", s) for s matching dateRX: the date at midnight UTC, or
\* an error when the month has no such day
ParseDate(s) ==
  LET Day(y, mo, d) ==
        IF d > DaysIn(y, mo) THEN [err |-> "day out of range", val |-> ZeroTime]
        ELSE [err |-> "nil", val |-> Date(y, mo, d, 0, 0)]
  IN  Day(100 * TwoDigits(s, 1) + TwoDigits(s, 3), TwoDigits(s, 6), TwoDigits(s, 9))

\* time.Parse("15:04", s) for s matching timeRX: that time on January 1 of year 0
ParseClock(s) ==
  [err |-> "nil", val |-> Date(0, 1, 1, TwoDigits(s, 1), TwoDigits(s, 4))]

(***************************************************************************)
(* Field validators: the UnmarshalJSON methods                             *)
(*                                                                         *)
(* A raw JSON value is [k, s]: k = "str" for a string literal whose        *)
(* unquoted text is s (escape sequences are not modelled), "null" for      *)
(* null, "num" for any other literal, "absent" for a key the object lacks. *)
(***************************************************************************)

JStr(s) == [k |-> "str", s |-> s]
JNull == [k |-> "null", s |-> << >>]
JNum == [k |-> "num", s |-> << >>]
JAbsent == [k |-> "absent", s |-> << >>]

\* strconv.Unquote of the raw JSON value: only a quoted string unquotes
Unquote(jsonValue) ==
  IF jsonValue.k = "str" THEN [err |-> "nil", s |-> jsonValue.s]
  ELSE [err |-> "ErrSyntax", s |-> << >>]

\* ^[\w\s\-&]+$
retailerRX(s) ==
  Len(s) >= 1 /\ \A i \in 1..Len(s) : IsWord(s[i]) \/ IsSpaceRX(s[i]) \/ s[i] \in {"-", "&"}

\* ^[\w\s\-]+$
shortDescriptionRX(s) ==
  Len(s) >= 1 /\ \A i \in 1..Len(s) : IsWord(s[i]) \/ IsSpaceRX(s[i]) \/ s[i] = "-"

\* ^\d{4}-(0[1-9]|1[0-2])-(0[1-9]|[12]\d|3[01])$
dateRX(s) ==
  /\ Len(s) = 10
  /\ \A i \in 1..4 : IsDigit(s[i])
  /\ s[5] = "-"
  /\ \/ (s[6] = "0" /\ IsDigit(s[7]) /\ s[7] # "0")
     \/ (s[6] = "1" /\ s[7] \in {"0", "1", "2"})
  /\ s[8] = "-"
  /\ \/ (s[9] = "0" /\ IsDigit(s[10]) /\ s[10] # "0")
     \/ (s[9] \in {"1", "2"} /\ IsDigit(s[10]))
     \/ (s[9] = "3" /\ s[10] \in {"0", "1"})

\* ^(?:[01]\d|2[0-3]):[0-5]\d$
timeRX(s) ==
  /\ Len(s) = 5
  /\ \/ (s[1] \in {"0", "1"} /\ IsDigit(s[2]))
     \/ (s[1] = "2" /\ s[2] \in {"0", "1", "2", "3"})
  /\ s[3] = ":"
  /\ s[4] \in {"0", "1", "2", "3", "4", "5"}
  /\ IsDigit(s[5])

\* ^\d+\.\d{2}$
amountRX(s) ==
  /\ Len(s) >= 4
  /\ \A i \in 1..(Len(s) - 3) : IsDigit(s[i])
  /\ s[Len(s) - 2] = "."
  /\ IsDigit(s[Len(s) - 1])
  /\ IsDigit(s[Len(s)])

\* (*ReceiptRetailer).UnmarshalJSON
ReceiptRetailerUnmarshalJSON(jsonValue) ==
  LET Trimmed(t) ==
        IF ~retailerRX(t) THEN [err |-> "ErrInvalidReceiptRetailerFormat", val |-> << >>]
        ELSE [err |-> "nil", val |-> TrimSpace(t)]
      Unquoted(u) ==
        IF u.err # "nil" THEN [err |-> "ErrInvalidReceiptRetailerFormat", val |-> << >>]
        ELSE Trimmed(TrimSpace(u.s))
  IN  Unquoted(Unquote(jsonValue))

\* (*ReceiptShortDescription).UnmarshalJSON: its failures are the retailer's error
ReceiptShortDescriptionUnmarshalJSON(jsonValue) ==
  LET Trimmed(t) ==
        IF ~shortDescriptionRX(t)
        THEN [err |-> "ErrInvalidReceiptRetailerFormat", val |-> << >>]
        ELSE [err |-> "nil", val |-> TrimSpace(t)]
      Unquoted(u) ==
        IF u.err # "nil" THEN [err |-> "ErrInvalidReceiptRetailerFormat", val |-> << >>]
        ELSE Trimmed(TrimSpace(u.s))
  IN  Unquoted(Unquote(jsonValue))

\* (*ReceiptPurchaseDate).UnmarshalJSON
ReceiptPurchaseDateUnmarshalJSON(jsonValue) ==
  LET Parsed(r) ==
        IF r.err # "nil" THEN [err |-> "ErrInvalidReceiptPurchaseDateFormat", val |-> ZeroTime]
        ELSE [err |-> "nil", val |-> r.val]
      Trimmed(t) ==
        IF ~dateRX(t) THEN [err |-> "ErrInvalidReceiptPurchaseDateFormat", val |-> ZeroTime]
        ELSE Parsed(ParseDate(t))
      Unquoted(u) ==
        IF u.err # "nil" THEN [err |-> "ErrInvalidReceiptPurchaseDateFormat", val |-> ZeroTime]
        ELSE Trimmed(TrimSpace(u.s))
  IN  Unquoted(Unquote(jsonValue))

\* (*ReceiptPurchaseTime).UnmarshalJSON
ReceiptPurchaseTimeUnmarshalJSON(jsonValue) ==
  LET Parsed(r) ==
        IF r.err # "nil" THEN [err |-> "ErrInvalidReceiptPurchaseTimeFormat", val |-> ZeroTime]
        ELSE [err |-> "nil", val |-> r.val]
      Trimmed(t) ==
        IF ~timeRX(t) THEN [err |-> "ErrInvalidReceiptPurchaseTimeFormat", val |-> ZeroTime]
        ELSE Parsed(ParseClock(t))
      Unquoted(u) ==
        IF u.err # "nil" THEN [err |-> "ErrInvalidReceiptPurchaseTimeFormat", val |-> ZeroTime]
        ELSE Trimmed(TrimSpace(u.s))
  IN  Unquoted(Unquote(jsonValue))

\* (*ReceiptAmount).UnmarshalJSON: an unquoting failure is returned as strconv's own error
ReceiptAmountUnmarshalJSON(jsonValue) ==
  LET Parsed(r) ==
        IF r.err # "nil" THEN [err |-> "ErrInvalidReceiptAmountFormat", val |-> F32Zero]
        ELSE [err |-> "nil", val |-> r.val]
      Trimmed(t) ==
        IF ~amountRX(t) THEN [err |-> "ErrInvalidReceiptAmountFormat", val |-> F32Zero]
        ELSE Parsed(ParseFloat32(t))
      Unquoted(u) ==
        IF u.err # "nil" THEN [err |-> u.err, val |-> F32Zero]
        ELSE Trimmed(TrimSpace(u.s))
  IN  Unquoted(Unquote(jsonValue))

\* The five field types with an UnmarshalJSON method
FieldTypes ==
  { "ReceiptRetailer", "ReceiptShortDescription", "ReceiptPurchaseDate",
    "ReceiptPurchaseTime", "ReceiptAmount" }

\* json.Unmarshal's call of the field type's UnmarshalJSON
UnmarshalJSON(f, jsonValue) ==
  CASE f = "ReceiptRetailer" -> ReceiptRetailerUnmarshalJSON(jsonValue)
    [] f = "ReceiptShortDescription" -> ReceiptShortDescriptionUnmarshalJSON(jsonValue)
    [] f = "ReceiptPurchaseDate" -> ReceiptPurchaseDateUnmarshalJSON(jsonValue)
    [] f = "ReceiptPurchaseTime" -> ReceiptPurchaseTimeUnmarshalJSON(jsonValue)
    [] f = "ReceiptAmount" -> ReceiptAmountUnmarshalJSON(jsonValue)

NoUnmarshalled == [done |-> FALSE, whole |-> << >>, bare |-> << >>]

(***************************************************************************)
(* Receipts, the request decoder and the receipt validator                 *)
(*                                                                         *)
(* A request body is [body, retailer, purchaseDate, purchaseTime, items,   *)
(* total]: body = "object" for a JSON object with the given members (in    *)
(* that order), or the way the body is not one. Items carry neither the    *)
(* identifier nor the timestamps NewReceiptItem gives them: no code reads  *)
(* them.                                                                   *)
(***************************************************************************)

NilAmount == [nil |-> TRUE, v |-> F32Zero]

PtrTo(x) == [nil |-> FALSE, v |-> x]

\* The zero value of processReceiptHandler's input struct
ZeroInput ==
  [Retailer |-> << >>, PurchaseDate |-> ZeroTime, PurchaseTime |-> ZeroTime,
   ItemsNil |-> TRUE, Items |-> << >>, Total |-> NilAmount]

\* encoding/json on a struct field of an Unmarshaler type T: a missing key leaves the
\* zero value, every present value (null included) goes to UnmarshalJSON
DecodeValue(jv, res, zero) ==
  IF jv.k = "absent" THEN [err |-> "nil", val |-> zero] ELSE res

\* The decoding of an amount field that is no pointer: a missing key leaves the zero
\* amount, which nothing tells from a given "0.00"
DecodeAmountValue(jv) ==
  IF jv.k = "absent" THEN [err |-> "nil", val |-> PtrTo(F32Zero)]
  ELSE LET Allocated(r) == [err |-> r.err, val |-> PtrTo(r.val)]
       IN  Allocated(ReceiptAmountUnmarshalJSON(jv))

\* encoding/json on a field of type *ReceiptAmount: a missing key and null leave the
\* pointer nil, every other value is allocated and goes to UnmarshalJSON
DecodeAmountPtr(jv) ==
  IF jv.k \in {"absent", "null"} THEN [err |-> "nil", val |-> NilAmount]
  ELSE LET Allocated(r) == [err |-> r.err, val |-> PtrTo(r.val)]
       IN  Allocated(ReceiptAmountUnmarshalJSON(jv))

DecodeItem(it) ==
  LET Fields(sd, pr) ==
        [err |-> IF sd.err # "nil" THEN sd.err ELSE pr.err,
         val |-> [ShortDescription |-> sd.val, Price |-> pr.val]]
  IN  Fields(DecodeValue(it.shortDescription,
                         ReceiptShortDescriptionUnmarshalJSON(it.shortDescription), << >>),
             DecodeAmountPtr(it.price))

\* The first failure among the results rs, or "nil"
RECURSIVE FirstErr(_)
FirstErr(rs) ==
  IF rs = << >> THEN "nil"
  ELSE IF Head(rs).err # "nil" THEN Head(rs).err
  ELSE FirstErr(Tail(rs))

\* encoding/json on the items member: absent or null leaves the slice nil, an array
\* decodes element by element, anything else is an UnmarshalTypeError
DecodeItems(ji) ==
  IF ji.k \in {"absent", "null"} THEN [err |-> "nil", nil |-> TRUE, val |-> << >>]
  ELSE IF ji.k # "arr" THEN [err |-> "UnmarshalTypeError", nil |-> FALSE, val |-> << >>]
  ELSE LET Elements(rs) ==
             [err |-> FirstErr(rs), nil |-> FALSE, val |-> [i \in 1..Len(rs) |-> rs[i].val]]
       IN  Elements([i \in 1..Len(ji.a) |-> DecodeItem(ji.a[i])])

\* app.readJSON(w, r, &input): the decoder's failure as the message readJSON returns
\* (a validator's error is passed on as it is), and the input struct it filled
readJSON(payload) ==
  IF payload.body = "badJSON"
  THEN [err |-> "body contains badly-formed JSON", input |-> ZeroInput]
  ELSE IF payload.body = "empty"
  THEN [err |-> "body must not be empty", input |-> ZeroInput]
  ELSE IF payload.body = "unknownKey"
  THEN [err |-> "body contains unknown key", input |-> ZeroInput]
  ELSE IF payload.body = "tooLarge"
  THEN [err |-> "body must not be larger than 1048576 bytes", input |-> ZeroInput]
  ELSE IF payload.body = "null"
  THEN [err |-> "nil", input |-> ZeroInput]
  ELSE
    LET Decoded(err, input) ==
          IF err = "UnmarshalTypeError"
          THEN [err |-> "body contains incorrect JSON type for field", input |-> input]
          ELSE IF err # "nil" THEN [err |-> err, input |-> input]
          ELSE IF payload.body = "extraValue"
          THEN [err |-> "body must only contain a single JSON value", input |-> input]
          ELSE [err |-> "nil", input |-> input]
        Members(rt, pd, pt, its, tot) ==
          Decoded(FirstErr(<< rt, pd, pt, its, tot >>),
                  [Retailer |-> rt.val, PurchaseDate |-> pd.val, PurchaseTime |-> pt.val,
                   ItemsNil |-> its.nil, Items |-> its.val, Total |-> tot.val])
    IN  Members(DecodeValue(payload.retailer,
                            ReceiptRetailerUnmarshalJSON(payload.retailer), << >>),
                DecodeValue(payload.purchaseDate,
                            ReceiptPurchaseDateUnmarshalJSON(payload.purchaseDate), ZeroTime),
                DecodeValue(payload.purchaseTime,
                            ReceiptPurchaseTimeUnmarshalJSON(payload.purchaseTime), ZeroTime),
                DecodeItems(payload.items),
                DecodeAmountPtr(payload.total))

\* (*ReceiptModel).NewReceipt with the identifier uuid.NewString() returned
NewReceipt(id, t) ==
  [ID |-> id, CreatedAt |-> t, UpdatedAt |-> t, Retailer |-> << >>,
   PurchaseDate |-> ZeroTime, PurchaseTime |-> ZeroTime,
   ItemsNil |-> FALSE, Items |-> << >>, Total |-> F32Zero]

\* validator.New(): no errors yet
ValidatorNew == {}

\* (*Validator).Check: a failed check adds its named failure to the error set
Check(v, ok, key, message) == IF ok THEN v ELSE v \cup {<< key, message >>}

\* (*Validator).Valid
Valid(v) == v = {}

RetailerMaxBytes == 500

RECURSIVE ValidateItems(_, _)
ValidateItems(v, items) ==
  IF items = << >> THEN v
  ELSE LET v1 == Check(v, Head(items).ShortDescription # << >>,
                       "shortDescription", "must be provided")
           v2 == Check(v1, ~F32Negative(Head(items).Price), "price", "must not be negative")
       IN  ValidateItems(v2, Tail(items))

\* A ValidateReceipt without the checks on items
ValidateReceiptAnyItems(v, rc, t) ==
  LET v1 == Check(v, rc.Retailer # << >>, "retailer", "must be provided")
      v2 == Check(v1, Len(rc.Retailer) <= RetailerMaxBytes, "retailer",
                  "must not be more than 500 bytes long")
      v3 == Check(v2, ~IsZero(rc.PurchaseDate), "purchaseDate", "must be provided")
      v4 == Check(v3, Before(rc.PurchaseDate, t), "purchaseDate",
                  "must not be in the future")
      v5 == Check(v4, ~IsZero(rc.PurchaseTime), "purchaseTime", "must be provided")
      v8 == Check(v5, ~F32Negative(rc.Total), "total", "must not be negative")
  IN  v8

\* data.ValidateReceipt(v, rc), time.Now().UTC() being t
ValidateReceipt(v, rc, t) ==
  LET v1 == Check(v, rc.Retailer # << >>, "retailer", "must be provided")
      v2 == Check(v1, Len(rc.Retailer) <= RetailerMaxBytes, "retailer",
                  "must not be more than 500 bytes long")
      v3 == Check(v2, ~IsZero(rc.PurchaseDate), "purchaseDate", "must be provided")
      v4 == Check(v3, Before(rc.PurchaseDate, t), "purchaseDate",
                  "must not be in the future")
      v5 == Check(v4, ~IsZero(rc.PurchaseTime), "purchaseTime", "must be provided")
      v6 == Check(v5, ~rc.ItemsNil, "items", "must be provided")
      v7 == Check(v6, Len(rc.Items) >= 1, "items", "must contain at least 1 item")
      v8 == Check(v7, ~F32Negative(rc.Total), "total", "must not be negative")
  IN  ValidateItems(v8, rc.Items)

(***************************************************************************)
(* Points calculator                                                       *)
(***************************************************************************)

\* isAlphanumeric(char)
isAlphanumeric(char) ==
  LET Alnum(o) ==
        \/ Within(o, 97, 122)     \* 'a'..'z'
        \/ Within(o, 65, 90)      \* 'A'..'Z'
        \/ Within(o, 48, 57)      \* '0'..'9'
  IN  Alnum(Ord(char))

\* if cond { points += n }
AddIf(points, cond, n) == IF cond THEN points + n ELSE points

\* The description loop of calculatePoints over the items from the first on
RECURSIVE DescriptionPoints(_, _)
DescriptionPoints(items, totalPoints) ==
  IF items = << >> THEN totalPoints
  ELSE LET trimmedDesc == TrimSpace(Head(items).ShortDescription)
           itemPoints == CeilTimesPointTwo(Head(items).Price)
       IN  DescriptionPoints(Tail(items),
                             AddIf(totalPoints, Len(trimmedDesc) % 3 = 0, itemPoints))

\* app.calculatePoints(receipt) on a build for arch
calculatePoints(receipt, arch) ==
  LET Alnums(retailer) ==
        Cardinality({i \in 1..Len(retailer) : isAlphanumeric(retailer[i])})
      Afternoon(hour) == hour >= 14 /\ hour < 16
      p1 == Alnums(TrimSpace(receipt.Retailer))
      p2 == AddIf(p1, F32Eq(receipt.Total, Float32OfIntOf(receipt.Total, arch)), 50)
      p3 == AddIf(p2, ModQuarterIsZero(receipt.Total), 25)
      p4 == p3 + (Len(receipt.Items) \div 2) * 5
      p5 == DescriptionPoints(receipt.Items, p4)
      p6 == AddIf(p5, receipt.PurchaseDate.D % 2 # 0, 6)
      p7 == AddIf(p6, Afternoon(receipt.PurchaseTime.h), 10)
  IN  p7

(***************************************************************************)
(* State                                                                   *)
(***************************************************************************)

\* Goroutines serving requests (or calling the store) at the same time
NumWorkers == 2

\* Identifiers uuid.NewString() can return
NumUUIDs == 2

Workers == 1..NumWorkers

\* The i-th identifier, as a string
UUID(i) == << "i", "d", Printable[17 + i] >>

UUIDs == {UUID(i) : i \in 1..NumUUIDs}

VARIABLES
  data,         \* ReceiptModel.data: the map from identifier to *Receipt
  hashWriting,  \* the map's write-in-progress flag (set while an assignment or delete runs)
  mu,           \* ReceiptModel.mu: w = the goroutine (if any) holding or awaiting the write lock, readers
  pc,           \* each worker's place in the store method it is running
  op,           \* each worker's running store call: [name, id, receipt]
  ret,          \* what the running store call is about to return: [err, receipt]
  pre,          \* history: the map as each call found it when it got its lock
  req,          \* each worker's HTTP request: [kind, payload, id]
  resp,         \* the response each worker wrote for its request
  now,          \* time.Now().UTC()
  goarch,       \* the build's architecture
  issued,       \* history: identifier -> receipt of every Submit answered 200
  known,        \* history: what issued held for a points request's identifier when it arrived
  sample,       \* the receipt fields under calculation (points specification)
  points,       \* calculatePoints's result for sample
  field,        \* the field type whose UnmarshalJSON runs (field specification)
  jsonText,     \* the raw JSON value handed to UnmarshalJSON
  bareText,     \* the same value without the white space around its text
  unmarshalled, \* [whole, bare]: what UnmarshalJSON makes of jsonText and of bareText
  limiterCfg,   \* app.config.limiter: [enabled, burst]; rps is one request per unit of time
  clients,      \* rateLimit's map from IP to *client: [limiter, lastSeen]
  clientsMu,    \* rateLimit's sync.Mutex: the goroutine holding it (if any)
  rl,           \* each worker's place in rateLimit: [pc, ip, next, resp]
  sweeper,      \* rateLimit's background goroutine: [pc, wake]
  elapsed,      \* the time since the server started, in units of 1/rps seconds
  seen,         \* history: per IP the count and time of its first and last passed requests
  wrapped,      \* the handler recoverPanic wraps: [resp, panic], what it writes or panics with
  rr            \* the http.ResponseWriter of recoverPanic's request: [served, status, connection, body]

storeVars == << data, hashWriting, mu, pc, op, ret, pre >>

apiVars == << req, resp, now, issued, known >>

calcVars == << sample, points >>

fieldVars == << field, jsonText, bareText, unmarshalled >>

limitVars == << limiterCfg, clients, clientsMu, rl, sweeper, elapsed, seen >>

panicVars == << wrapped, rr >>

vars == << data, hashWriting, mu, pc, op, ret, pre, req, resp, now, goarch, issued,
           known, sample, points, field, jsonText, bareText, unmarshalled,
           limiterCfg, clients, clientsMu, rl, sweeper, elapsed, seen, wrapped, rr >>

\* A pointer is the empty sequence (nil) or the one-element sequence of its referent
Nil == << >>

Ptr(x) == << x >>

EmptyMap == [x \in {} |-> x]

NoOp == [name |-> "none", id |-> << >>, receipt |-> Nil]

NoRet == [err |-> "pending", receipt |-> Nil]

NoReq == [kind |-> "none", payload |-> Nil, id |-> << >>]

NoResp == [status |-> 0, key |-> "", msg |-> "", id |-> << >>, points |-> 0]

\* r.data[id] with the comma-ok form: the pointer stored under id, nil when absent
Lookup(d, id) == IF id \in DOMAIN d THEN Ptr(d[id]) ELSE Nil

\* d with id mapped to receipt
MapAssign(d, id, receipt) ==
  [x \in DOMAIN d \cup {id} |-> IF x = id THEN receipt ELSE d[x]]

\* d without id
MapDelete(d, id) == [x \in DOMAIN d \ {id} |-> d[x]]

\* What a read of r.data[id] can give. A read that runs while an assignment or delete
\* is in progress is a data race: the runtime may stop the program ("concurrent map
\* read and map write") or the read may see the entry as it was.
MapRead(id) ==
  IF hashWriting THEN {[fatal |-> TRUE, ptr |-> Nil], [fatal |-> FALSE, ptr |-> Lookup(data, id)]}
  ELSE {[fatal |-> FALSE, ptr |-> Lookup(data, id)]}

(***************************************************************************)
(* sync.RWMutex                                                            *)
(***************************************************************************)

\* Lock() first excludes other writers and new readers ...
MuLock(p) == mu.w = {} /\ mu' = [mu EXCEPT !.w = {p}]

\* A write lock that does not wait for the readers to leave
MuLockedIgnoringReaders(p) == mu.w = {p}

\* ... then waits for the readers that hold the lock to leave
MuLocked(p) == mu.w = {p} /\ mu.readers = {}

MuUnlock(p) == mu' = [mu EXCEPT !.w = @ \ {p}]

\* RLock() blocks while a writer holds or awaits the lock
MuRLock(p) == mu.w = {} /\ mu' = [mu EXCEPT !.readers = @ \cup {p}]

MuRUnlock(p) == mu' = [mu EXCEPT !.readers = @ \ {p}]

\* Calling a store method: the call starts at its first statement
StoreCall(p, o) ==
  /\ pc' = [pc EXCEPT ![p] = "lock"]
  /\ op' = [op EXCEPT ![p] = o]
  /\ ret' = [ret EXCEPT ![p] = NoRet]
  /\ UNCHANGED << data, hashWriting, mu, pre >>

(***************************************************************************)
(* Responses                                                               *)
(***************************************************************************)

\* app.writeJSON(w, status, envelope{key: value}, nil) for an identifier value
writeJSONId(status, id) ==
  [status |-> status, key |-> "id", msg |-> "", id |-> id, points |-> 0]

\* app.writeJSON(w, status, envelope{"points": n}, nil)
writeJSONPoints(status, n) ==
  [status |-> status, key |-> "points", msg |-> "", id |-> << >>, points |-> n]

\* app.errorResponse(w, r, status, message)
errorResponse(status, message) ==
  [status |-> status, key |-> "description", msg |-> message, id |-> << >>, points |-> 0]

\* app.badRequestResponse(w, r, message)
badRequestResponse(message) == errorResponse(400, message)

\* app.serverErrorResponse(w, r, err)
serverErrorResponse ==
  errorResponse(500, "the server encountered a problem and could not process your request")

\* app.rateLimitExceededResponse(w, r)
rateLimitExceededResponse == errorResponse(429, "rate limit exceeded")

\* app.receiptIDNotFoundResponse(w, r, message)
receiptIDNotFoundResponse(message) == errorResponse(400, message)

(***************************************************************************)
(* Sample inputs                                                           *)
(***************************************************************************)

sTarget == << "T", "a", "r", "g", "e", "t" >>

sRetailer123 == << "R", "e", "t", "a", "i", "l", "e", "r", "1", "2", "3" >>

sShop42 == << "S", "h", "o", "p", "#", "4", "2" >>

sCorner == << "M", "&", "M", " ", "C", "o", "r", "n", "e", "r", " ", "M", "a", "r", "k", "e", "t" >>

sBlank == << " ", " ", " " >>

sMountainDew == << "M", "o", "u", "n", "t", "a", "i", "n", " ", "D", "e", "w", " ", "1", "2", "P", "K" >>

sPizza == << "E", "m", "i", "l", "s", " ", "C", "h", "e", "e", "s", "e", " ", "P", "i", "z", "z", "a" >>

sKnorr == << "K", "n", "o", "r", "r", " ", "C", "r", "e", "a", "m", "y", " ", "C", "h", "i", "c", "k", "e", "n" >>

sDoritos == << "D", "o", "r", "i", "t", "o", "s", " ", "N", "a", "c", "h", "o", " ", "C", "h", "e", "e", "s", "e" >>

sKlarbrunn == << " ", " ", " ", "K", "l", "a", "r", "b", "r", "u", "n", "n", " ", "1", "2", "-", "P", "K", " ", "1", "2", " ", "F", "L", " ", "O", "Z", " ", " " >>

sMilk == << "M", "i", "l", "k" >>

sBread == << "B", "r", "e", "a", "d" >>

sJuice == << "J", "u", "i", "c", "e" >>

sGum == << "G", "u", "m" >>

d20220101 == << "2", "0", "2", "2", "-", "0", "1", "-", "0", "1" >>

d20241213 == << "2", "0", "2", "4", "-", "1", "2", "-", "1", "3" >>

d20241214 == << "2", "0", "2", "4", "-", "1", "2", "-", "1", "4" >>

d20990101 == << "2", "0", "9", "9", "-", "0", "1", "-", "0", "1" >>

d20220230 == << "2", "0", "2", "2", "-", "0", "2", "-", "3", "0" >>

d00010101 == << "0", "0", "0", "1", "-", "0", "1", "-", "0", "1" >>

t1301 == << "1", "3", ":", "0", "1" >>

t1359 == << "1", "3", ":", "5", "9" >>

t1400 == << "1", "4", ":", "0", "0" >>

t1500 == << "1", "5", ":", "0", "0" >>

t1559 == << "1", "5", ":", "5", "9" >>

t1600 == << "1", "6", ":", "0", "0" >>

t2400 == << "2", "4", ":", "0", "0" >>

a649 == << "6", ".", "4", "9" >>

a1225 == << "1", "2", ".", "2", "5" >>

a126 == << "1", ".", "2", "6" >>

a335 == << "3", ".", "3", "5" >>

a1200 == << "1", "2", ".", "0", "0" >>

a3535 == << "3", "5", ".", "3", "5" >>

a250 == << "2", ".", "5", "0" >>

a150 == << "1", ".", "5", "0" >>

a10000 == << "1", "0", "0", ".", "0", "0" >>

a9999 == << "9", "9", ".", "9", "9" >>

a375 == << "3", ".", "7", "5" >>

a000 == << "0", ".", "0", "0" >>

a500 == << "5", ".", "0", "0" >>

a025 == << "0", ".", "2", "5" >>

a1010 == << "1", "0", ".", "1", "0" >>

aMinus100 == << "-", "1", ".", "0", "0" >>

a1e19 == << "1", "0", "0", "0", "0", "0", "0", "0", "0", "0", "0", "0", "0", "0", "0", "0", "0", "0", "0", "0", ".", "0", "0" >>

a2p63 == << "9", "2", "2", "3", "3", "7", "2", "0", "3", "6", "8", "5", "4", "7", "7", "5", "8", "0", "7", ".", "0", "0" >>

a26214401 == << "2", "6", "2", "1", "4", "4", ".", "0", "1" >>

a1e6 == << "1", "0", "0", "0", "0", "0", "0", ".", "0", "0" >>

\* 2^128, the least amount strconv.ParseFloat(s, 32) cannot hold
a2p128 == << "3", "4", "0", "2", "8", "2", "3", "6", "6", "9", "2", "0", "9", "3", "8", "4", "6", "3", "4", "6", "3", "3", "7", "4", "6", "0", "7", "4", "3", "1", "7", "6", "8", "2", "1", "1", "4", "5", "6", ".", "0", "0" >>

\* the greatest float32
aMaxFloat32 == << "3", "4", "0", "2", "8", "2", "3", "4", "6", "6", "3", "8", "5", "2", "8", "8", "5", "9", "8", "1", "1", "7", "0", "4", "1", "8", "3", "4", "8", "4", "5", "1", "6", "9", "2", "5", "4", "4", "0", ".", "0", "0" >>

\* halfway between the greatest float32 and 2^128: it rounds to 2^128
aHalfway == << "3", "4", "0", "2", "8", "2", "3", "5", "6", "7", "7", "9", "7", "3", "3", "6", "6", "1", "6", "3", "7", "5", "3", "9", "3", "9", "5", "4", "5", "8", "1", "4", "2", "5", "6", "8", "4", "4", "8", ".", "0", "0" >>

\* one cent less: it rounds to the greatest float32
aBelowHalfway == << "3", "4", "0", "2", "8", "2", "3", "5", "6", "7", "7", "9", "7", "3", "3", "6", "6", "1", "6", "3", "7", "5", "3", "9", "3", "9", "5", "4", "5", "8", "1", "4", "2", "5", "6", "8", "4", "4", "7", ".", "9", "9" >>

a15 == << "1", ".", "5" >>

d20221301 == << "2", "0", "2", "2", "-", "1", "3", "-", "0", "1" >>

\* A retailer name of n bytes
NameOfLen(n) == [i \in 1..n |-> "a"]

JItem(desc, price) == [shortDescription |-> desc, price |-> price]

JItems(a) == [k |-> "arr", a |-> a]

NoJItems == [k |-> "absent", a |-> << >>]

\* A request body that is one JSON object with these members
Payload(retailer, purchaseDate, purchaseTime, items, total) ==
  [body |-> "object", retailer |-> retailer, purchaseDate |-> purchaseDate,
   purchaseTime |-> purchaseTime, items |-> items, total |-> total]

\* The receipt of the handler tests (createValidReceipt)
TargetPayload ==
  Payload(JStr(sTarget), JStr(d20220101), JStr(t1301),
          JItems(<< JItem(JStr(sMountainDew), JStr(a649)),
                    JItem(JStr(sPizza), JStr(a1225)),
                    JItem(JStr(sKnorr), JStr(a126)),
                    JItem(JStr(sDoritos), JStr(a335)),
                    JItem(JStr(sKlarbrunn), JStr(a1200)) >>),
          JStr(a3535))

\* A short receipt bought on the day the clock starts
MilkPayload ==
  Payload(JStr(sRetailer123), JStr(d20241213), JStr(t1500),
          JItems(<< JItem(JStr(sMilk), JStr(a250)), JItem(JStr(sBread), JStr(a150)) >>),
          JStr(a10000))

\* A receipt whose amounts are all zero
FreePayload ==
  Payload(JStr(sCorner), JStr(d20220101), JStr(t1400),
          JItems(<< JItem(JStr(sGum), JStr(a000)) >>), JStr(a000))

\* A one-item receipt, the base of the rejected variants
GumPayload ==
  Payload(JStr(sCorner), JStr(d20220101), JStr(t1559),
          JItems(<< JItem(JStr(sGum), JStr(a025)) >>), JStr(a025))

GumItems(desc, price) == JItems(<< JItem(JStr(sMilk), JStr(a250)), JItem(desc, price) >>)

\* Bodies processReceiptHandler accepts (when their date is in the past)
GoodPayloads ==
  { MilkPayload, FreePayload }

\* Bodies it rejects
BadPayloads ==
  { [GumPayload EXCEPT !.total = JAbsent],
    [GumPayload EXCEPT !.total = JNull],
    [GumPayload EXCEPT !.total = JNum],
    [GumPayload EXCEPT !.total = JStr(aMinus100)],
    [GumPayload EXCEPT !.items = GumItems(JStr(sGum), JAbsent)],
    [GumPayload EXCEPT !.items = GumItems(JStr(sGum), JNull)],
    [GumPayload EXCEPT !.items = GumItems(JStr(sGum), JStr(aMinus100))],
    [GumPayload EXCEPT !.items = GumItems(JAbsent, JStr(a025))],
    [GumPayload EXCEPT !.items = GumItems(JStr(sBlank), JStr(a025))],
    [GumPayload EXCEPT !.items = JItems(<< >>)],
    [GumPayload EXCEPT !.items = NoJItems],
    [GumPayload EXCEPT !.items = [k |-> "null", a |-> << >>]],
    [GumPayload EXCEPT !.items = [k |-> "num", a |-> << >>]],
    [GumPayload EXCEPT !.retailer = JStr(sShop42)],
    [GumPayload EXCEPT !.retailer = JStr(sBlank)],
    [GumPayload EXCEPT !.retailer = JAbsent],
    [GumPayload EXCEPT !.retailer = JNull],
    [GumPayload EXCEPT !.retailer = JStr(NameOfLen(RetailerMaxBytes + 1))],
    [GumPayload EXCEPT !.purchaseDate = JStr(d20990101)],
    [GumPayload EXCEPT !.purchaseDate = JStr(d20220230)],
    [GumPayload EXCEPT !.purchaseDate = JStr(d00010101)],
    [GumPayload EXCEPT !.purchaseDate = JAbsent],
    [GumPayload EXCEPT !.purchaseTime = JStr(t2400)],
    [GumPayload EXCEPT !.purchaseTime = JAbsent],
    [GumPayload EXCEPT !.body = "badJSON"],
    [GumPayload EXCEPT !.body = "empty"],
    [GumPayload EXCEPT !.body = "unknownKey"],
    [GumPayload EXCEPT !.body = "tooLarge"],
    [GumPayload EXCEPT !.body = "null"],
    [GumPayload EXCEPT !.body = "extraValue"] }

\* Every body a single client sends
AllPayloads == GoodPayloads \cup BadPayloads

\* The bodies concurrent clients send
FewPayloads == { FreePayload, [GumPayload EXCEPT !.total = JAbsent] }

\* Path parameters of points requests: the identifiers uuid can return, one it never
\* returns, and one with a space in it
sNoSuchId == << "n", "o", "n", "e" >>

sSpacedId == << "a", " ", "b" >>

sEmptyId == << >>

PathIds == UUIDs \cup {sNoSuchId, sSpacedId, sEmptyId}

\* The instants time.Now().UTC() takes, in order
Clock == << Date(2024, 12, 13, 0, 0), Date(2025, 1, 1, 9, 30) >>

Instants == {Clock[i] : i \in 1..Len(Clock)}

(***************************************************************************)
(* Handlers: the code around their store call                              *)
(***************************************************************************)

\* processReceiptHandler once readJSON has filled input, uuid.NewString() returning
\* id: the nil checks, the copy into the new receipt and its validation
processReceiptHandlerInput(input, id, t) ==
  LET errorMessage == "The receipt is invalid"
      Validated(rc, v) ==
        IF ~Valid(v)
        THEN [resp |-> badRequestResponse(errorMessage), receipt |-> Nil]
        ELSE [resp |-> NoResp, receipt |-> Ptr(rc)]
      Filled(rc) == Validated(rc, ValidateReceipt(ValidatorNew, rc, t))
  IN  IF input.Total.nil
      THEN [resp |-> badRequestResponse(errorMessage), receipt |-> Nil]
      ELSE IF \E i \in 1..Len(input.Items) : input.Items[i].Price.nil
      THEN [resp |-> badRequestResponse(errorMessage), receipt |-> Nil]
      ELSE Filled([NewReceipt(id, t) EXCEPT
                     !.Retailer = input.Retailer,
                     !.PurchaseDate = input.PurchaseDate,
                     !.PurchaseTime = input.PurchaseTime,
                     !.Items = [i \in 1..Len(input.Items) |->
                                  [ShortDescription |-> input.Items[i].ShortDescription,
                                   Price |-> input.Items[i].Price.v]],
                     !.Total = input.Total.v])

\* A processReceiptHandler that answers a decoding failure with the decoder's message
processReceiptHandlerHeadVerbose(payload, id, t) ==
  LET Read(r) ==
        IF r.err # "nil"
        THEN [resp |-> badRequestResponse(r.err), receipt |-> Nil]
        ELSE processReceiptHandlerInput(r.input, id, t)
  IN  Read(readJSON(payload))

\* processReceiptHandler up to its call of Insert, uuid.NewString() returning id:
\* the response when the request is rejected (resp) or the receipt to insert
processReceiptHandlerHead(payload, id, t) ==
  LET Read(r) ==
        IF r.err # "nil"
        THEN [resp |-> badRequestResponse("The receipt is invalid"), receipt |-> Nil]
        ELSE processReceiptHandlerInput(r.input, id, t)
  IN  Read(readJSON(payload))

\* processReceiptHandlerHead on the sample bodies, tabulated
processReceiptHandlerHeadOf ==
  [payload \in AllPayloads, id \in UUIDs, t \in Instants |->
     processReceiptHandlerHead(payload, id, t)]

\* The receipts processReceiptHandler hands to Insert
AcceptedReceipts ==
  LET Inserted(heads) ==
        {heads[x].receipt[1] : x \in {y \in DOMAIN heads : heads[y].receipt # Nil}}
  IN  Inserted(processReceiptHandlerHeadOf)

\* calculatePoints on those receipts, tabulated
calculatePointsOf ==
  [receipt \in AcceptedReceipts, arch \in GoArchs |-> calculatePoints(receipt, arch)]

\* processReceiptHandler after Insert returned err for receipt
processReceiptHandlerTail(err, receipt) ==
  IF err # "nil" THEN serverErrorResponse
  ELSE writeJSONId(200, receipt.ID)

\* ^\S+$
idRX(id) == Len(id) >= 1 /\ \A i \in 1..Len(id) : ~IsSpaceRX(id[i])

\* app.readIDParam(r) for the path parameter id
readIDParam(id) ==
  IF ~idRX(id) THEN [err |-> "invalid id param pattern", id |-> << >>]
  ELSE [err |-> "nil", id |-> id]

\* getPointsHandler up to its call of Get: the response when the identifier is
\* refused, or the identifier to look up
getPointsHandlerHead(id) ==
  LET errorMessage == "No receipt found for that id"
      Param(r) ==
        IF r.err # "nil"
        THEN [resp |-> receiptIDNotFoundResponse(errorMessage), id |-> << >>]
        ELSE IF r.id = << >>
        THEN [resp |-> receiptIDNotFoundResponse(errorMessage), id |-> << >>]
        ELSE [resp |-> NoResp, id |-> r.id]
  IN  Param(readIDParam(id))

\* A getPointsHandler that answers a failed Get with zero points
getPointsHandlerTailZero(err, receipt, arch) ==
  IF err # "nil" THEN writeJSONPoints(200, 0)
  ELSE writeJSONPoints(200, calculatePointsOf[receipt[1], arch])

\* getPointsHandler after Get returned (receipt, err)
getPointsHandlerTail(err, receipt, arch) ==
  IF err # "nil" THEN receiptIDNotFoundResponse("No receipt found for that id")
  ELSE writeJSONPoints(200, calculatePointsOf[receipt[1], arch])

\* A store method returns to its caller, which runs to its end: a handler writes its
\* response, a direct caller of the store just goes on.
Return(p) ==
  /\ pc' = [pc EXCEPT ![p] = "idle"]
  /\ op' = [op EXCEPT ![p] = NoOp]
  /\ ret' = [ret EXCEPT ![p] = NoRet]
  /\ pre' = [pre EXCEPT ![p] = EmptyMap]
  /\ resp' = [resp EXCEPT ![p] =
                IF req[p].kind = "submit"
                THEN processReceiptHandlerTail(ret[p].err, op[p].receipt[1])
                ELSE IF req[p].kind = "points"
                THEN getPointsHandlerTail(ret[p].err, ret[p].receipt, goarch)
                ELSE NoResp]
  /\ issued' = IF req[p].kind = "submit" /\ ret[p].err = "nil"
               THEN MapAssign(issued, op[p].receipt[1].ID, op[p].receipt[1])
               ELSE issued
  /\ UNCHANGED << req, now, known >>

(***************************************************************************)
(* Receipt store: the methods of ReceiptModel, one action per step         *)
(***************************************************************************)

\* Update taking the read lock as Get does
LockKindUpdateReads(name) == IF name \in {"Get", "Update"} THEN "R" ELSE "W"

\* The lock each method takes: Get the read lock, the others the write lock
LockKind(name) == IF name = "Get" THEN "R" ELSE "W"

\* r.mu.Lock(): the writer announces itself
Lock(p) ==
  /\ pc[p] = "lock"
  /\ LockKind(op[p].name) = "W"
  /\ MuLock(p)
  /\ pc' = [pc EXCEPT ![p] = "wait"]
  /\ UNCHANGED << data, hashWriting, op, ret, pre >>
  /\ UNCHANGED << apiVars, goarch, calcVars, fieldVars, limitVars, panicVars >>

\* r.mu.Lock() returns once no reader holds the lock
Locked(p) ==
  /\ pc[p] = "wait"
  /\ MuLocked(p)
  /\ pc' = [pc EXCEPT ![p] = "cs"]
  /\ pre' = [pre EXCEPT ![p] = data]
  /\ UNCHANGED << data, hashWriting, mu, op, ret >>
  /\ UNCHANGED << apiVars, goarch, calcVars, fieldVars, limitVars, panicVars >>

\* r.mu.RLock()
RLock(p) ==
  /\ pc[p] = "lock"
  /\ LockKind(op[p].name) = "R"
  /\ MuRLock(p)
  /\ pc' = [pc EXCEPT ![p] = "cs"]
  /\ pre' = [pre EXCEPT ![p] = data]
  /\ UNCHANGED << data, hashWriting, op, ret >>
  /\ UNCHANGED << apiVars, goarch, calcVars, fieldVars, limitVars, panicVars >>

\* The method's result is err (and receipt): what is left is the deferred unlock
Returning(p, err, receipt) ==
  /\ ret' = [ret EXCEPT ![p] = [err |-> err, receipt |-> receipt]]
  /\ pc' = [pc EXCEPT ![p] = "unlock"]

\* The method goes on to write the map
Writing(p) ==
  /\ hashWriting' = TRUE
  /\ pc' = [pc EXCEPT ![p] = "write"]
  /\ UNCHANGED ret

\* An Insert that does not look for the identifier first
InsertBodyUnchecked(p) ==
  /\ pc[p] = "cs"
  /\ op[p].name = "Insert"
  /\ Writing(p)
  /\ UNCHANGED << data, mu, op, pre >>
  /\ UNCHANGED << apiVars, goarch, calcVars, fieldVars, limitVars, panicVars >>

\* Insert: if _, exists := r.data[receipt.ID]; exists { return ErrDuplicateRecord }
InsertBody(p) ==
  /\ pc[p] = "cs"
  /\ op[p].name = "Insert"
  /\ \E x \in MapRead(op[p].id) :
       IF x.fatal THEN Returning(p, "fatal", Nil) /\ UNCHANGED hashWriting
       ELSE IF x.ptr # Nil THEN Returning(p, "ErrDuplicateRecord", Nil) /\ UNCHANGED hashWriting
       ELSE Writing(p)
  /\ UNCHANGED << data, mu, op, pre >>
  /\ UNCHANGED << apiVars, goarch, calcVars, fieldVars, limitVars, panicVars >>

\* An Insert that returns nil without writing the map
InsertStoreLost(p) ==
  /\ pc[p] = "write"
  /\ op[p].name = "Insert"
  /\ hashWriting' = FALSE
  /\ Returning(p, "nil", Nil)
  /\ UNCHANGED << data, mu, op, pre >>
  /\ UNCHANGED << apiVars, goarch, calcVars, fieldVars, limitVars, panicVars >>

\* Insert: r.data[receipt.ID] = receipt; return nil
InsertStore(p) ==
  /\ pc[p] = "write"
  /\ op[p].name = "Insert"
  /\ data' = MapAssign(data, op[p].id, op[p].receipt[1])
  /\ hashWriting' = FALSE
  /\ Returning(p, "nil", Nil)
  /\ UNCHANGED << mu, op, pre >>
  /\ UNCHANGED << apiVars, goarch, calcVars, fieldVars, limitVars, panicVars >>

\* Get: receipt, exists := r.data[id]; if !exists { return nil, ErrRecordNotFound };
\* return receipt, nil
GetBody(p) ==
  /\ pc[p] = "cs"
  /\ op[p].name = "Get"
  /\ \E x \in MapRead(op[p].id) :
       IF x.fatal THEN Returning(p, "fatal", Nil)
       ELSE IF x.ptr = Nil THEN Returning(p, "ErrRecordNotFound", Nil)
       ELSE Returning(p, "nil", x.ptr)
  /\ UNCHANGED << data, hashWriting, mu, op, pre >>
  /\ UNCHANGED << apiVars, goarch, calcVars, fieldVars, limitVars, panicVars >>

\* An Update that does not look for the identifier first
UpdateBodyUnchecked(p) ==
  /\ pc[p] = "cs"
  /\ op[p].name = "Update"
  /\ Writing(p)
  /\ UNCHANGED << data, mu, op, pre >>
  /\ UNCHANGED << apiVars, goarch, calcVars, fieldVars, limitVars, panicVars >>

\* Update: if _, exists := r.data[receipt.ID]; !exists { return ErrRecordNotFound }
UpdateBody(p) ==
  /\ pc[p] = "cs"
  /\ op[p].name = "Update"
  /\ \E x \in MapRead(op[p].id) :
       IF x.fatal THEN Returning(p, "fatal", Nil) /\ UNCHANGED hashWriting
       ELSE IF x.ptr = Nil THEN Returning(p, "ErrRecordNotFound", Nil) /\ UNCHANGED hashWriting
       ELSE Writing(p)
  /\ UNCHANGED << data, mu, op, pre >>
  /\ UNCHANGED << apiVars, goarch, calcVars, fieldVars, limitVars, panicVars >>

\* An Update that writes the new receipt but keeps the stored total
UpdateStoreKeepsTotal(p) ==
  /\ pc[p] = "write"
  /\ op[p].name = "Update"
  /\ data' = MapAssign(data, op[p].id,
                       [op[p].receipt[1] EXCEPT !.Total = data[op[p].id].Total])
  /\ hashWriting' = FALSE
  /\ Returning(p, "nil", Nil)
  /\ UNCHANGED << mu, op, pre >>
  /\ UNCHANGED << apiVars, goarch, calcVars, fieldVars, limitVars, panicVars >>

\* Update: r.data[receipt.ID] = receipt; return nil
UpdateStore(p) ==
  /\ pc[p] = "write"
  /\ op[p].name = "Update"
  /\ data' = MapAssign(data, op[p].id, op[p].receipt[1])
  /\ hashWriting' = FALSE
  /\ Returning(p, "nil", Nil)
  /\ UNCHANGED << mu, op, pre >>
  /\ UNCHANGED << apiVars, goarch, calcVars, fieldVars, limitVars, panicVars >>

\* Delete: if _, exists := r.data[id]; !exists { return ErrRecordNotFound }
DeleteBody(p) ==
  /\ pc[p] = "cs"
  /\ op[p].name = "Delete"
  /\ \E x \in MapRead(op[p].id) :
       IF x.fatal THEN Returning(p, "fatal", Nil) /\ UNCHANGED hashWriting
       ELSE IF x.ptr = Nil THEN Returning(p, "ErrRecordNotFound", Nil) /\ UNCHANGED hashWriting
       ELSE Writing(p)
  /\ UNCHANGED << data, mu, op, pre >>
  /\ UNCHANGED << apiVars, goarch, calcVars, fieldVars, limitVars, panicVars >>

\* A Delete that empties the map
DeleteStoreClears(p) ==
  /\ pc[p] = "write"
  /\ op[p].name = "Delete"
  /\ data' = EmptyMap
  /\ hashWriting' = FALSE
  /\ Returning(p, "nil", Nil)
  /\ UNCHANGED << mu, op, pre >>
  /\ UNCHANGED << apiVars, goarch, calcVars, fieldVars, limitVars, panicVars >>

\* Delete: delete(r.data, id); return nil
DeleteStore(p) ==
  /\ pc[p] = "write"
  /\ op[p].name = "Delete"
  /\ data' = MapDelete(data, op[p].id)
  /\ hashWriting' = FALSE
  /\ Returning(p, "nil", Nil)
  /\ UNCHANGED << mu, op, pre >>
  /\ UNCHANGED << apiVars, goarch, calcVars, fieldVars, limitVars, panicVars >>

\* defer r.mu.Unlock() / defer r.mu.RUnlock(), and the return to the caller
Unlock(p) ==
  /\ pc[p] = "unlock"
  /\ IF LockKind(op[p].name) = "W" THEN MuUnlock(p) ELSE MuRUnlock(p)
  /\ Return(p)
  /\ UNCHANGED << data, hashWriting, goarch, calcVars, fieldVars, limitVars, panicVars >>

\* One step of a store method by worker p
StoreStep(p) ==
  \/ Lock(p)
  \/ Locked(p)
  \/ RLock(p)
  \/ InsertBody(p)
  \/ InsertStore(p)
  \/ GetBody(p)
  \/ UpdateBody(p)
  \/ UpdateStore(p)
  \/ DeleteBody(p)
  \/ DeleteStore(p)
  \/ Unlock(p)

\* The receipts direct callers of the store hand to Insert, one per identifier ...
InsertReceipts ==
  {processReceiptHandlerHead(MilkPayload, id, Clock[2]).receipt[1] : id \in UUIDs}

\* ... and those they hand to Update: the same purchase with its total corrected
UpdateReceipts ==
  {[rc EXCEPT !.Total = ParseFloat32(a9999).val] : rc \in InsertReceipts}

\* The calls direct callers make
StoreOps ==
  {[name |-> "Insert", id |-> rc.ID, receipt |-> Ptr(rc)] : rc \in InsertReceipts}
  \cup {[name |-> "Update", id |-> rc.ID, receipt |-> Ptr(rc)] : rc \in UpdateReceipts}
  \cup {[name |-> n, id |-> id, receipt |-> Nil] : n \in {"Get", "Delete"}, id \in UUIDs}

(***************************************************************************)
(* Callers of the store                                                    *)
(***************************************************************************)

\* A direct caller of the store (a goroutine of the store's tests) starts a call
Call(p) ==
  /\ pc[p] = "idle"
  /\ \E o \in StoreOps : StoreCall(p, o)
  /\ UNCHANGED << apiVars, goarch, calcVars, fieldVars, limitVars, panicVars >>

\* POST /receipts/process with a body from payloads reaches worker p, which runs
\* processReceiptHandler up to its response or to its call of Insert. The one
\* reading of the clock stands for those of NewReceipt and ValidateReceipt.
Submit(p, payloads) ==
  /\ pc[p] = "idle"
  /\ \E payload \in payloads, id \in UUIDs :
       LET h == processReceiptHandlerHeadOf[payload, id, now]
       IN  /\ req' = [req EXCEPT ![p] = [kind |-> "submit", payload |-> Ptr(payload),
                                         id |-> << >>]]
           /\ known' = [known EXCEPT ![p] = Nil]
           /\ IF h.receipt = Nil
              THEN resp' = [resp EXCEPT ![p] = h.resp] /\ UNCHANGED storeVars
              ELSE /\ resp' = [resp EXCEPT ![p] = NoResp]
                   /\ StoreCall(p, [name |-> "Insert", id |-> id, receipt |-> h.receipt])
  /\ UNCHANGED << now, goarch, issued, calcVars, fieldVars, limitVars, panicVars >>

\* GET /receipts/{id}/points with a path parameter from ids reaches worker p, which
\* runs getPointsHandler up to its response or to its call of Get
Points(p, ids) ==
  /\ pc[p] = "idle"
  /\ \E id \in ids :
       LET h == getPointsHandlerHead(id)
       IN  /\ req' = [req EXCEPT ![p] = [kind |-> "points", payload |-> Nil, id |-> id]]
           /\ known' = [known EXCEPT ![p] = Lookup(issued, id)]
           /\ IF h.id = << >>
              THEN resp' = [resp EXCEPT ![p] = h.resp] /\ UNCHANGED storeVars
              ELSE /\ resp' = [resp EXCEPT ![p] = NoResp]
                   /\ StoreCall(p, [name |-> "Get", id |-> h.id, receipt |-> Nil])
  /\ UNCHANGED << now, goarch, issued, calcVars, fieldVars, limitVars, panicVars >>

\* Time passes
Tick ==
  /\ \E i \in 1..(Len(Clock) - 1) : now = Clock[i] /\ now' = Clock[i + 1]
  /\ UNCHANGED << storeVars, req, resp, issued, known, goarch, calcVars, fieldVars, limitVars, panicVars >>

\* The store steps the handlers' calls take (they call Insert and Get only)
HandlerStep(p) ==
  \/ Lock(p)
  \/ Locked(p)
  \/ RLock(p)
  \/ InsertBody(p)
  \/ InsertStore(p)
  \/ GetBody(p)
  \/ Unlock(p)

(***************************************************************************)
(* The rateLimit middleware                                                *)
(*                                                                         *)
(* Time is counted in units of 1/rps seconds, the time in which the token  *)
(* bucket of golang.org/x/time/rate gains one token; the model takes rps   *)
(* as one request per minute, so that time.Minute is one unit.             *)
(***************************************************************************)

\* The greatest -limiter-burst the model configures
MaxBurst == 2

\* The time the model lets pass
MaxElapsed == 4

\* -limiter-burst's default
DefaultBurst == 4

\* time.Minute
Minute == 1

\* The hosts of the RemoteAddr values that have a port
IPs == {"10.0.0.1", "10.0.0.2"}

\* The host of a RemoteAddr without a port, which net.SplitHostPort refuses
NoPort == "10.0.0.3"

NoRateLimit == [pc |-> "idle", ip |-> "", next |-> FALSE, resp |-> NoResp]

NotSeen == [n |-> 0, first |-> 0, passed |-> -1]

\* rate.NewLimiter(rps, burst) at time t: a full bucket
NewLimiter(burst, t) == [burst |-> burst, tokens |-> burst, last |-> t]

\* (*rate.Limiter).Allow at time t: the bucket gains one token per unit of time up to
\* burst; a whole token is taken if there is one
Allow(limiter, t) ==
  LET Reserve(tokens) ==
        IF tokens >= 1
        THEN [ok |-> TRUE, limiter |-> [limiter EXCEPT !.tokens = tokens - 1, !.last = t]]
        ELSE [ok |-> FALSE, limiter |-> limiter]
      Advance(tokens) == Reserve(IF tokens > limiter.burst THEN limiter.burst ELSE tokens)
  IN  Advance(limiter.tokens + (t - limiter.last))

\* The request's part in the history of its IP: n counts the IP's requests decided at
\* the time of its first one, up to burst + 1 (and is burst + 1 once time has moved on,
\* when first is no longer kept); passed is when a request of the IP last passed
Seen(h, t, ok) ==
  LET Counted(burst) ==
        IF h.n = 0 THEN [n |-> 1, first |-> t, passed |-> IF ok THEN t ELSE h.passed]
        ELSE IF h.n <= burst /\ h.first = t
        THEN [n |-> h.n + 1, first |-> IF h.n = burst THEN 0 ELSE t,
              passed |-> IF ok THEN t ELSE h.passed]
        ELSE [n |-> burst + 1, first |-> 0, passed |-> IF ok THEN t ELSE h.passed]
  IN  Counted(limiterCfg.burst)

\* A request with RemoteAddr host ip reaches worker p: with the limiter disabled it goes
\* to the next handler; an address without a port is answered 500
RateLimitArrive(p) ==
  /\ rl[p].pc = "idle"
  /\ \E ip \in IPs \cup {NoPort} :
       rl' = [rl EXCEPT ![p] =
                IF ~limiterCfg.enabled
                THEN [pc |-> "idle", ip |-> "", next |-> TRUE, resp |-> NoResp]
                ELSE IF ip = NoPort
                THEN [pc |-> "idle", ip |-> "", next |-> FALSE, resp |-> serverErrorResponse]
                ELSE [pc |-> "lock", ip |-> ip, next |-> FALSE, resp |-> NoResp]]
  /\ UNCHANGED << limiterCfg, clients, clientsMu, sweeper, elapsed, seen >>
  /\ UNCHANGED << storeVars, apiVars, goarch, calcVars, fieldVars, panicVars >>

\* mu.Lock()
RateLimitLock(p) ==
  /\ rl[p].pc = "lock"
  /\ clientsMu = {}
  /\ clientsMu' = {p}
  /\ rl' = [rl EXCEPT ![p].pc = "locked"]
  /\ UNCHANGED << limiterCfg, clients, sweeper, elapsed, seen >>
  /\ UNCHANGED << storeVars, apiVars, goarch, calcVars, fieldVars, panicVars >>

\* A client made anew for every request
ClientOfFresh(ip) == [limiter |-> NewLimiter(limiterCfg.burst, elapsed), lastSeen |-> 0]

\* The IP's client, made when the map lacks it
ClientOf(ip) ==
  IF ip \in DOMAIN clients THEN clients[ip]
  ELSE [limiter |-> NewLimiter(limiterCfg.burst, elapsed), lastSeen |-> 0]

\* Under the mutex: find or make the client, set lastSeen, ask its limiter
RateLimitCheck(p) ==
  /\ rl[p].pc = "locked"
  /\ LET Asked(ip, a) ==
           /\ clients' = MapAssign(clients, ip, [limiter |-> a.limiter, lastSeen |-> elapsed])
           /\ rl' = [rl EXCEPT ![p].pc = IF a.ok THEN "allowed" ELSE "refused"]
           /\ seen' = [seen EXCEPT ![ip] = Seen(seen[ip], elapsed, a.ok)]
     IN  Asked(rl[p].ip, Allow(ClientOf(rl[p].ip).limiter, elapsed))
  /\ UNCHANGED << limiterCfg, clientsMu, sweeper, elapsed >>
  /\ UNCHANGED << storeVars, apiVars, goarch, calcVars, fieldVars, panicVars >>

\* mu.Unlock() on either path, then the 429 response or next.ServeHTTP(w, r)
RateLimitUnlock(p) ==
  /\ rl[p].pc \in {"allowed", "refused"}
  /\ clientsMu' = clientsMu \ {p}
  /\ rl' = [rl EXCEPT ![p] = [pc |-> "idle", ip |-> "",
                                  next |-> (rl[p].pc = "allowed"),
                                  resp |-> IF rl[p].pc = "allowed" THEN NoResp
                                           ELSE rateLimitExceededResponse]]
  /\ UNCHANGED << limiterCfg, clients, sweeper, elapsed, seen >>
  /\ UNCHANGED << storeVars, apiVars, goarch, calcVars, fieldVars, panicVars >>

\* The background goroutine: time.Sleep(time.Minute) is over; mu.Lock()
SweepLock ==
  /\ sweeper.pc = "sleep"
  /\ elapsed >= sweeper.wake
  /\ clientsMu = {}
  /\ clientsMu' = {"sweeper"}
  /\ sweeper' = [sweeper EXCEPT !.pc = "locked"]
  /\ UNCHANGED << limiterCfg, clients, rl, elapsed, seen >>
  /\ UNCHANGED << storeVars, apiVars, goarch, calcVars, fieldVars, panicVars >>

\* The background goroutine: delete the clients not seen for more than three minutes;
\* mu.Unlock(); sleep again
Sweep ==
  /\ sweeper.pc = "locked"
  /\ clients' = [ip \in {x \in DOMAIN clients : elapsed - clients[x].lastSeen <= 3 * Minute}
                   |-> clients[ip]]
  /\ clientsMu' = clientsMu \ {"sweeper"}
  /\ sweeper' = [pc |-> "sleep", wake |-> elapsed + Minute]
  /\ UNCHANGED << limiterCfg, rl, elapsed, seen >>
  /\ UNCHANGED << storeVars, apiVars, goarch, calcVars, fieldVars, panicVars >>

\* One unit of time passes
Elapse ==
  /\ elapsed < MaxElapsed
  /\ elapsed' = elapsed + 1
  /\ UNCHANGED << limiterCfg, clients, clientsMu, rl, sweeper, seen >>
  /\ UNCHANGED << storeVars, apiVars, goarch, calcVars, fieldVars, panicVars >>

\* One step of worker p inside rateLimit
RateLimitStep(p) == RateLimitLock(p) \/ RateLimitCheck(p) \/ RateLimitUnlock(p)

(***************************************************************************)
(* The recoverPanic middleware                                             *)
(*                                                                         *)
(* A ResponseWriter is [served, status, connection, body]: the status sent *)
(* (0 while no header is written), the Connection header as sent, and the  *)
(* JSON documents written to the body.                                     *)
(***************************************************************************)

\* httptest.NewRecorder(): nothing written
NewRecorder == [served |-> FALSE, status |-> 0, connection |-> "", body |-> << >>]

\* w.Header().Set("Connection", value): a header set after the header is written is
\* not sent
HeaderSetConnection(w, value) ==
  IF w.status = 0 THEN [w EXCEPT !.connection = value] ELSE w

\* w.WriteHeader(status): the first call decides the status
WriteHeader(w, status) == IF w.status = 0 THEN [w EXCEPT !.status = status] ELSE w

\* w.Write(js)
Write(w, js) == [w EXCEPT !.body = Append(@, js)]

\* app.writeJSON(w, status, data, nil) for the response r
writeJSON(w, r) == Write(WriteHeader(w, r.status), r)

\* A handler that writes nothing and does not panic
NoHandler == [resp |-> NoResp, panic |-> ""]

\* next.ServeHTTP(w, r) up to its return or its panic: what the handler wrote
ServeNext(w, next) == IF next.resp = NoResp THEN w ELSE writeJSON(w, next.resp)

\* A recoverPanic whose deferred function answers without the Connection header
recoverPanicKeepAlive(w, next) ==
  LET Unwound(w1) ==
        IF next.panic # "" THEN writeJSON(w1, serverErrorResponse) ELSE w1
  IN  Unwound(ServeNext(w, next))

\* recoverPanic(next).ServeHTTP(w, r): the deferred function runs when next returns or
\* panics; recover() stops the panic
recoverPanic(w, next) ==
  LET Unwound(w1) ==
        IF next.panic # ""
        THEN writeJSON(HeaderSetConnection(w1, "close"), serverErrorResponse)
        ELSE w1
  IN  Unwound(ServeNext(w, next))

\* app.methodNotAllowedResponse(w, r); the message is fmt.Sprintf's, with r.Method
methodNotAllowedResponse(method) ==
  errorResponse(405,
    CASE method = "GET" -> "the GET method is not supported for this resource"
      [] method = "POST" -> "the POST method is not supported for this resource"
      [] method = "PUT" -> "the PUT method is not supported for this resource"
      [] method = "DELETE" -> "the DELETE method is not supported for this resource")

\* The responses the router's handlers and rateLimit write
HandlerResponses ==
  {writeJSONId(200, id) : id \in UUIDs}
    \cup {writeJSONPoints(200, n) : n \in {0, 6, 9, 12, 15, 28, 32, 37, 87, 107, 109, 203}}
    \cup {badRequestResponse("The receipt is invalid"),
          receiptIDNotFoundResponse("No receipt found for that id"),
          errorResponse(404, "the requested resource could not be found"),
          rateLimitExceededResponse, serverErrorResponse}
    \cup {methodNotAllowedResponse(method) : method \in {"GET", "POST", "PUT", "DELETE"}}

\* The values a handler panics with
PanicValues ==
  {"test panic", "runtime error: invalid memory address or nil pointer dereference",
   "runtime error: index out of range [0] with length 0"}

\* The wrapped handlers: those that answer and return, the one that returns without
\* writing, and those that panic; a handler of the router writes its response as its
\* last statement, so a panic leaves nothing written
NextHandlers ==
  {[resp |-> r, panic |-> ""] : r \in HandlerResponses \cup {NoResp}}
    \cup {[resp |-> NoResp, panic |-> v] : v \in PanicValues}

\* app.recoverPanic(next).ServeHTTP(rr, r)
ServeHTTP ==
  /\ ~rr.served
  /\ rr' = [recoverPanic(rr, wrapped) EXCEPT !.served = TRUE]
  /\ UNCHANGED << storeVars, apiVars, goarch, calcVars, fieldVars, limitVars, wrapped >>

(***************************************************************************)
(* Specifications                                                          *)
(***************************************************************************)

\* A receipt for calculatePoints: the retailer as given, the other fields decoded from
\* their JSON text as the field validators decode them; TotalText keeps the text the
\* total was parsed from
Sample(retailer, purchaseDate, purchaseTime, items, total) ==
  [Retailer |-> retailer, PurchaseDate |-> ReceiptPurchaseDateUnmarshalJSON(JStr(purchaseDate)).val,
   PurchaseTime |-> ReceiptPurchaseTimeUnmarshalJSON(JStr(purchaseTime)).val,
   Items |-> [i \in 1..Len(items) |->
                [ShortDescription |->
                   ReceiptShortDescriptionUnmarshalJSON(items[i].shortDescription).val,
                 Price |-> ReceiptAmountUnmarshalJSON(items[i].price).val]],
   Total |-> ReceiptAmountUnmarshalJSON(JStr(total)).val,
   TotalText |-> total, scored |-> FALSE]

NoSample == Sample(<< >>, d20220101, t1301, << >>, a000)

SampleRetailers == { sTarget, sRetailer123, sShop42 }

SampleDates == { d20220101, d20241213, d20241214 }

SampleTimes == { t1301, t1359, t1400, t1500, t1559, t1600 }

SampleItems ==
  { TargetPayload.items.a, MilkPayload.items.a, << JItem(JStr(sJuice), JStr(a375)) >>,
    << JItem(JStr(sGum), JStr(a500)), JItem(JStr(sGum), JStr(a1010)) >> }

SampleTotals == { a3535, a10000, a9999, a000, a025, a26214401, a1e6, a2p63, a1e19 }

Samples ==
  {Sample(r, d, t, i, a) : r \in SampleRetailers, d \in SampleDates, t \in SampleTimes,
                           i \in SampleItems, a \in SampleTotals}

\* main(): NewModels() makes an empty store; nothing runs yet
InitServer ==
  /\ data = EmptyMap
  /\ hashWriting = FALSE
  /\ mu = [w |-> {}, readers |-> {}]
  /\ pc = [p \in Workers |-> "idle"]
  /\ op = [p \in Workers |-> NoOp]
  /\ ret = [p \in Workers |-> NoRet]
  /\ pre = [p \in Workers |-> EmptyMap]
  /\ req = [p \in Workers |-> NoReq]
  /\ resp = [p \in Workers |-> NoResp]
  /\ now = Clock[1]
  /\ issued = EmptyMap
  /\ known = [p \in Workers |-> Nil]

\* The build is for one of the architectures
InitArch == goarch \in GoArchs

\* No receipt is under calculation
InitNoSample == sample = NoSample /\ points = 0

\* No field is being decoded
InitNoField ==
  /\ field = "none"
  /\ jsonText = JNull
  /\ bareText = JNull
  /\ unmarshalled = NoUnmarshalled

\* rateLimit has wrapped the router: no client is known, the background goroutine
\* sleeps its first minute, and the limiter is configured with burst
InitLimiter(enabled, burst) ==
  /\ limiterCfg = [enabled |-> enabled, burst |-> burst]
  /\ clients = EmptyMap
  /\ clientsMu = {}
  /\ rl = [p \in Workers |-> NoRateLimit]
  /\ sweeper = [pc |-> "sleep", wake |-> Minute]
  /\ elapsed = 0
  /\ seen = [ip \in IPs |-> NotSeen]

\* The flags' defaults but for the rate: -limiter-burst 4, -limiter-enabled true
InitDefaultLimiter == InitLimiter(TRUE, DefaultBurst)

\* No request is inside recoverPanic
InitNoPanic == wrapped = NoHandler /\ rr = NewRecorder

\* The middleware before their first request
InitMiddleware == InitDefaultLimiter /\ InitNoPanic

Init == InitServer /\ InitArch /\ InitNoSample /\ InitNoField /\ InitMiddleware

\* The store under concurrent direct callers
NextStore == \E p \in Workers : Call(p) \/ StoreStep(p)

SpecStore == Init /\ [][NextStore]_vars

\* The server under concurrent requests
NextApi == \E p \in Workers : Submit(p, FewPayloads) \/ Points(p, PathIds) \/ HandlerStep(p)

SpecApi == Init /\ [][NextApi]_vars

\* The server taking one request at a time, with every sample body
NextSubmit ==
  \/ Tick
  \/ \E p \in {1} : Submit(p, AllPayloads) \/ Points(p, PathIds) \/ HandlerStep(p)

SpecSubmit == Init /\ [][NextSubmit]_vars

\* The server under concurrent clients that submit receipts of different scores and
\* ask for points, while time passes
NextService ==
  \/ Tick
  \/ \E p \in Workers : Submit(p, GoodPayloads) \/ Points(p, PathIds) \/ HandlerStep(p)

SpecService == Init /\ [][NextService]_vars

\* calculatePoints applied to one sample receipt
Calculate ==
  /\ ~sample.scored
  /\ points' = calculatePoints(sample, goarch)
  /\ sample' = [sample EXCEPT !.scored = TRUE]
  /\ UNCHANGED << storeVars, apiVars, goarch, fieldVars, limitVars, panicVars >>

InitPoints ==
  InitServer /\ InitArch /\ sample \in Samples /\ points = 0 /\ InitNoField /\ InitMiddleware

NextPoints == Calculate

SpecPoints == InitPoints /\ [][NextPoints]_vars

\* Texts without white space at either end
BareTexts ==
  { << >>, sTarget, sCorner, sShop42, sMountainDew,
    d20220101, d20220230, d20221301, t1301, t2400,
    a649, a15, aMinus100, aMaxFloat32, aBelowHalfway, aHalfway, a2p128 }

\* White space put before and after a text
Pads == { << >>, << " " >>, << "\t" >>, << "\n", " " >> }

\* One raw JSON value for one field type: a string with padded text, null, or a number
InitFields ==
  /\ InitServer
  /\ InitArch
  /\ InitNoSample
  /\ field \in FieldTypes
  /\ \/ \E text \in BareTexts, before \in Pads, after \in Pads :
          /\ jsonText = JStr(before \o text \o after)
          /\ bareText = JStr(text)
     \/ jsonText \in {JNull, JNum} /\ bareText = jsonText
  /\ unmarshalled = NoUnmarshalled
  /\ InitMiddleware

\* UnmarshalJSON applied to the raw value, and to the value without its padding
Unmarshal ==
  /\ ~unmarshalled.done
  /\ unmarshalled' = [done |-> TRUE,
                      whole |-> UnmarshalJSON(field, jsonText),
                      bare |-> UnmarshalJSON(field, bareText)]
  /\ UNCHANGED << storeVars, apiVars, goarch, calcVars, field, jsonText, bareText, limitVars, panicVars >>

NextFields == Unmarshal

SpecFields == InitFields /\ [][NextFields]_vars

\* The limiter enabled or not, with a burst up to MaxBurst
InitLimit ==
  /\ InitServer
  /\ goarch = "amd64"
  /\ InitNoSample
  /\ InitNoField
  /\ \E enabled \in BOOLEAN, burst \in 0..MaxBurst : InitLimiter(enabled, burst)
  /\ InitNoPanic

NextLimit ==
  \/ Elapse
  \/ SweepLock
  \/ Sweep
  \/ \E p \in Workers : RateLimitArrive(p) \/ RateLimitStep(p)

SpecLimit == InitLimit /\ [][NextLimit]_vars

\* One request to recoverPanic around one handler
InitRecover ==
  /\ InitServer
  /\ InitArch
  /\ InitNoSample
  /\ InitNoField
  /\ InitDefaultLimiter
  /\ wrapped \in NextHandlers
  /\ rr = NewRecorder

NextRecover == ServeHTTP

SpecRecover == InitRecover /\ [][NextRecover]_vars

(***************************************************************************)
(* The store's contract (SpecStore)                                        *)
(***************************************************************************)

\* Worker p's call has its result and still holds its lock
AtReturn(p, names) == pc[p] = "unlock" /\ op[p].name \in names

\* Worker p is inside the critical section of its call
InCS(p) == pc[p] \in {"cs", "write", "unlock"}

\* C1: an Insert of a receipt whose identifier the store already holds returns
\* ErrDuplicateRecord and leaves the whole store as it found it; any other Insert
\* returns nil and leaves the store as it found it but for the identifier, which now
\* maps to the inserted receipt.
C1_InsertContract ==
  \A p \in Workers :
    AtReturn(p, {"Insert"}) =>
      IF op[p].id \in DOMAIN pre[p]
      THEN ret[p].err = "ErrDuplicateRecord" /\ data = pre[p]
      ELSE ret[p].err = "nil" /\ data = MapAssign(pre[p], op[p].id, op[p].receipt[1])

\* An Insert refused as a duplicate while the store holds another receipt under the
\* identifier than the one offered
C1_Witness ==
  \E p \in Workers :
    /\ AtReturn(p, {"Insert"})
    /\ ret[p].err = "ErrDuplicateRecord"
    /\ data[op[p].id] # op[p].receipt[1]

\* C2: Get, Update and Delete of an identifier the store does not hold return
\* ErrRecordNotFound and leave the store as they found it (Update creates nothing);
\* Get of an identifier the store holds returns the receipt stored under it.
C2_NotFound ==
  \A p \in Workers :
    /\ (AtReturn(p, {"Get", "Update", "Delete"}) /\ op[p].id \notin DOMAIN pre[p]) =>
         /\ ret[p] = [err |-> "ErrRecordNotFound", receipt |-> Nil]
         /\ data = pre[p]
    /\ (AtReturn(p, {"Get"}) /\ op[p].id \in DOMAIN pre[p]) =>
         /\ ret[p] = [err |-> "nil", receipt |-> Ptr(pre[p][op[p].id])]
         /\ data = pre[p]

\* An Update refused for an identifier the store lacks, while it holds another
C2_Witness ==
  \E p \in Workers :
    /\ AtReturn(p, {"Update"})
    /\ ret[p].err = "ErrRecordNotFound"
    /\ DOMAIN data # {}

\* C3: a writer (Insert, Update, Delete) inside its critical section is alone there,
\* readers (Get) may share theirs; the lock is held by exactly the calls in progress
\* that took it, so every return path has released it; and whenever calls are in
\* progress one of them can take a step.
C3_LockDiscipline ==
  /\ \A p, q \in Workers :
       (p # q /\ InCS(p) /\ InCS(q)) => (op[p].name = "Get" /\ op[q].name = "Get")
  /\ mu.readers = {p \in Workers : InCS(p) /\ op[p].name = "Get"}
  /\ mu.w = {p \in Workers : pc[p] \in {"wait", "cs", "write", "unlock"} /\ op[p].name # "Get"}
  /\ (\E p \in Workers : pc[p] # "idle") => (\E p \in Workers : ENABLED StoreStep(p))

\* Two Gets inside their critical sections at once
C3_Witness ==
  \E p, q \in Workers :
    /\ p # q
    /\ op[p].name = "Get" /\ InCS(p)
    /\ op[q].name = "Get" /\ InCS(q)

\* C4: what a Get returns is the entry as the store holds it while the Get has the
\* read lock, and a write to the same identifier by a call in progress at that time
\* has not begun: the Get returns the receipt (or the absence) from before that write,
\* or the whole result of a write that ended before, never something in between.
C4_GetAtomic ==
  \A p \in Workers :
    AtReturn(p, {"Get"}) =>
      /\ ret[p].err \in {"nil", "ErrRecordNotFound"}
      /\ ret[p].receipt = Lookup(data, op[p].id)
      /\ ~hashWriting
      /\ \A q \in Workers :
           (pc[q] # "idle" /\ op[q].name # "Get" /\ op[q].id = op[p].id) =>
             pc[q] \in {"lock", "wait"}

\* A Get returning the stored receipt while an Update of the same identifier with
\* another receipt waits for the lock
C4_Witness ==
  \E p, q \in Workers :
    /\ AtReturn(p, {"Get"})
    /\ ret[p].err = "nil"
    /\ op[q].name = "Update" /\ pc[q] = "wait" /\ op[q].id = op[p].id
    /\ op[q].receipt # ret[p].receipt

\* Worker p's call of a method among names returns nil in this step
Succeeds(p, names) ==
  /\ op[p].name \in names
  /\ pc[p] # "unlock"
  /\ pc'[p] = "unlock"
  /\ ret'[p].err = "nil"

\* The entries of all identifiers but id are the same before and after the step
OthersUnchanged(id) ==
  \A x \in (DOMAIN data \cup DOMAIN data') \ {id} :
    x \in DOMAIN data /\ x \in DOMAIN data' /\ data'[x] = data[x]

\* C14: the step in which an Update(receipt) succeeds leaves the store with the same
\* identifiers, the entry of receipt.ID equal to the new receipt in every field, and
\* every other entry as it was; no step but a successful write changes the store, and a
\* successful Get returns the entry the store holds, so a Get that follows the Update
\* returns the new receipt.
C14_UpdateReplaces ==
  [][/\ \A p \in Workers :
          /\ Succeeds(p, {"Update"}) =>
               /\ DOMAIN data' = DOMAIN data
               /\ op[p].id \in DOMAIN data
               /\ data'[op[p].id] = op[p].receipt[1]
               /\ OthersUnchanged(op[p].id)
          /\ Succeeds(p, {"Get"}) => ret'[p].receipt = Ptr(data[op[p].id])
     /\ data' # data => \E p \in Workers : Succeeds(p, {"Insert", "Update", "Delete"})]_vars

\* A Get returns the receipt an Update stored, with the other identifier's entry as
\* it was inserted
C14_Witness ==
  \E p \in Workers :
    /\ AtReturn(p, {"Get"})
    /\ ret[p].err = "nil"
    /\ ret[p].receipt[1] \in UpdateReceipts
    /\ \E x \in DOMAIN data : x # op[p].id /\ data[x] \in InsertReceipts

\* Worker p's call of a method among names gets its result in this step
Decides(p, names) ==
  /\ op[p].name \in names
  /\ pc[p] # "unlock"
  /\ pc'[p] = "unlock"

\* C15: the step in which a Delete(id) succeeds removes the entry of id and leaves every
\* other entry as it was; an absent identifier stays absent until an Insert with it
\* succeeds; and while it is absent every Get, Update and Delete on it returns
\* ErrRecordNotFound and the Insert with it returns nil.
C15_DeleteRemoves ==
  [][\A p \in Workers :
       /\ Succeeds(p, {"Delete"}) =>
            /\ op[p].id \in DOMAIN data
            /\ DOMAIN data' = DOMAIN data \ {op[p].id}
            /\ OthersUnchanged(op[p].id)
       /\ (Decides(p, {"Get", "Update", "Delete"}) /\ op[p].id \notin DOMAIN data) =>
            ret'[p] = [err |-> "ErrRecordNotFound", receipt |-> Nil]
       /\ (Decides(p, {"Insert"}) /\ op[p].id \notin DOMAIN data) =>
            (ret'[p].err = "nil" /\ op[p].id \in DOMAIN data')
       /\ \A id \in UUIDs :
            (id \notin DOMAIN data /\ id \in DOMAIN data') =>
              \E q \in Workers : Succeeds(q, {"Insert"}) /\ op[q].id = id]_vars

\* A Delete has removed its identifier's entry and left the other one, while the other
\* worker waits with an Insert of the deleted identifier
C15_Witness ==
  \E p, q \in Workers :
    /\ AtReturn(p, {"Delete"})
    /\ ret[p].err = "nil"
    /\ op[p].id \in DOMAIN pre[p]
    /\ op[p].id \notin DOMAIN data
    /\ DOMAIN data # {}
    /\ pc[q] = "lock"
    /\ op[q].name = "Insert"
    /\ op[q].id = op[p].id

(***************************************************************************)
(* The handlers' contract (SpecApi, SpecSubmit)                            *)
(***************************************************************************)

\* Worker p has answered a request of this kind
Answered(p, kind) == req[p].kind = kind /\ pc[p] = "idle"

\* The one response of a rejected submission
InvalidReceipt == badRequestResponse("The receipt is invalid")

\* C5: a points request for an identifier that a Submit had answered with before the
\* request arrived is answered 200 with the points calculatePoints gives the receipt
\* of that Submit, never with the not-found failure, whatever other requests run
\* beside it.
C5_RoundTrip ==
  \A p \in Workers :
    (Answered(p, "points") /\ known[p] # Nil) =>
      resp[p] = writeJSONPoints(200, calculatePoints(known[p][1], goarch))

\* Such a points request answered while another worker is inside a Submit's Insert
C5_Witness ==
  \E p, q \in Workers :
    /\ Answered(p, "points") /\ known[p] # Nil /\ resp[p].status = 200
    /\ req[q].kind = "submit" /\ pc[q] \in {"cs", "write", "unlock"}

\* The body is an object that lacks its total or the price of an item, or gives null
LacksAmount(payload) ==
  /\ payload.body = "object"
  /\ \/ payload.total.k \in {"absent", "null"}
     \/ /\ payload.items.k = "arr"
        /\ \E i \in 1..Len(payload.items.a) : payload.items.a[i].price.k \in {"absent", "null"}

\* The body gives "0.00" for its total or for a price
GivesZero(payload) ==
  \/ payload.total = JStr(a000)
  \/ /\ payload.items.k = "arr"
     /\ \E i \in 1..Len(payload.items.a) : payload.items.a[i].price = JStr(a000)

\* C8: a Submit whose body lacks the total or an item's price (or gives null for it)
\* makes no call of the store and is answered with the invalid-receipt failure; the
\* sample body whose amounts are all "0.00" is not answered with that failure.
C8_MissingAmount ==
  \A p \in Workers :
    req[p].kind = "submit" =>
      /\ LacksAmount(req[p].payload[1]) => (pc[p] = "idle" /\ resp[p] = InvalidReceipt)
      /\ (GivesZero(req[p].payload[1]) /\ pc[p] = "idle") => resp[p] # InvalidReceipt

\* A Submit with a null price rejected while the store holds the receipt of a body
\* whose amounts are "0.00"
C8_Witness ==
  \E p \in Workers :
    /\ Answered(p, "submit")
    /\ LacksAmount(req[p].payload[1])
    /\ req[p].payload[1].total.k = "str"
    /\ resp[p] = InvalidReceipt
    /\ \E id \in DOMAIN data : data[id].Total = F32Zero

\* The body has an empty items array or no items key, or a negative price
NoItemsOrNegativePrice(payload) ==
  /\ payload.body = "object"
  /\ \/ payload.items.k = "absent"
     \/ payload.items.k = "arr" /\ payload.items.a = << >>
     \/ /\ payload.items.k = "arr"
        /\ \E i \in 1..Len(payload.items.a) : payload.items.a[i].price = JStr(aMinus100)

\* What C9 says of a stored receipt
WellFormed(rc) ==
  /\ rc.Retailer # << >>
  /\ Len(rc.Retailer) <= RetailerMaxBytes
  /\ ~IsZero(rc.PurchaseDate)
  /\ ~Before(rc.CreatedAt, rc.PurchaseDate)
  /\ ~IsZero(rc.PurchaseTime)
  /\ Len(rc.Items) >= 1
  /\ ~F32Negative(rc.Total)
  /\ \A i \in 1..Len(rc.Items) :
       rc.Items[i].ShortDescription # << >> /\ ~F32Negative(rc.Items[i].Price)

\* C9: in every reachable state every stored receipt has a non-empty retailer of at
\* most 500 bytes, a non-zero purchase date not later than the time it was processed,
\* a non-zero purchase time, at least one item, a non-negative total and items with a
\* non-empty description and a non-negative price; and a Submit with an empty items
\* array, no items key or a negative price makes no call of the store.
C9_StoredReceipts ==
  /\ \A id \in DOMAIN data : WellFormed(data[id])
  /\ \A p \in Workers :
       (req[p].kind = "submit" /\ NoItemsOrNegativePrice(req[p].payload[1])) =>
         (pc[p] = "idle" /\ resp[p].status = 400)

\* A stored receipt bought on the day the clock started, and the Submit of an empty
\* items array rejected after it
C9_Witness ==
  /\ \E id \in DOMAIN data : data[id].PurchaseDate.D = Clock[1].D /\ data[id].PurchaseDate.Y = Clock[1].Y
  /\ \E p \in Workers :
       /\ Answered(p, "submit")
       /\ req[p].payload[1].items = JItems(<< >>)
       /\ resp[p].status = 400

\* C10: every Submit that is answered and not accepted (its receipt was not handed to
\* Insert) gets the one response 400 "The receipt is invalid", and every sample body
\* with a defect (undecodable body, malformed field, missing amount, failed structural
\* check) is answered so: the response is the same whichever field failed.
C10_OneRejection ==
  \A p \in Workers :
    Answered(p, "submit") =>
      /\ resp[p].status \notin {200, 500} => resp[p] = InvalidReceipt
      /\ req[p].payload[1] \in BadPayloads => resp[p] = InvalidReceipt

\* A Submit whose retailer fails its pattern, rejected with that response
C10_Witness ==
  \E p \in Workers :
    /\ Answered(p, "submit")
    /\ req[p].payload[1].retailer = JStr(sShop42)
    /\ resp[p] = InvalidReceipt

\* The not-found failure of a points request: an error response with its message
NotFoundFailure(r) ==
  /\ r.status >= 400
  /\ r.key = "description"
  /\ r.msg = "No receipt found for that id"

\* Worker p's points request is answered in this step for an identifier the store
\* does not hold as the answer is made, or that is empty or holds white space
AnswersUnknown(p) ==
  /\ req'[p].kind = "points"
  /\ pc'[p] = "idle"
  /\ IF pc[p] = "idle" THEN req'[p].id = << >> \/ \E i \in 1..Len(req'[p].id) : req'[p].id[i] = " "
     ELSE op[p].id \notin DOMAIN data

\* C11: every points request for an identifier that the store does not hold, or that
\* is empty or holds white space, is answered with the not-found failure: never with
\* a success carrying points, and a Get that returns no error returns a receipt (so
\* calculatePoints is never handed nil).
C11_UnknownIdNotFound ==
  [][\A p \in Workers :
       /\ AnswersUnknown(p) => NotFoundFailure(resp'[p])
       /\ (AtReturn(p, {"Get"}) /\ ret[p].err = "nil") => ret[p].receipt # Nil]_vars

\* A points request for an identifier no Submit was answered with, refused as not
\* found while the store holds a receipt
C11_Witness ==
  \E p \in Workers :
    /\ Answered(p, "points")
    /\ req[p].id = sNoSuchId
    /\ NotFoundFailure(resp[p])
    /\ DOMAIN data # {}

\* C20: the not-found failure of the points endpoint (receiptIDNotFoundResponse, sent
\* by getPointsHandler for an invalid, empty or unknown identifier) has the HTTP status
\* 404 Not Found.
C20_NotFoundStatus ==
  \A p \in Workers :
    (Answered(p, "points") /\ NotFoundFailure(resp[p])) => resp[p].status = 404

\* Worker p's points request, which arrived after a Submit had returned its
\* identifier, is answered in this step
AnswersIssued(p) ==
  /\ req[p].kind = "points"
  /\ known[p] # Nil
  /\ pc[p] # "idle"
  /\ pc'[p] = "idle"

\* The answers two such requests for one identifier hold are the same success
SameAnswers ==
  \A p, q \in Workers :
    ( /\ Answered(p, "points") /\ known[p] # Nil
      /\ Answered(q, "points") /\ known[q] # Nil
      /\ req[p].id = req[q].id ) =>
        resp[p].status = 200 /\ resp[p] = resp[q]

\* C21: points are stable. Once a Submit has returned the identifier x, the receipt
\* stored under x stays the one that Submit inserted (no handler updates, deletes or
\* changes it), and every later points request for x, whatever Submits and points
\* requests run beside it, is answered 200 with the points of that receipt: the same
\* integer each time.
C21_PointsStable ==
  [][/\ \A x \in DOMAIN issued :
          /\ x \in DOMAIN issued' /\ issued'[x] = issued[x]
          /\ x \in DOMAIN data' /\ data'[x] = issued[x]
     /\ \A p \in Workers :
          AnswersIssued(p) =>
            resp'[p] = writeJSONPoints(200, calculatePoints(issued[req[p].id], goarch))
     /\ SameAnswers']_vars

\* Two points requests for one identifier answered alike, after a Submit of a receipt
\* with another score was refused that identifier and another receipt was stored
C21_Witness ==
  \E p, q \in Workers :
    /\ p # q
    /\ Answered(p, "points") /\ known[p] # Nil
    /\ Answered(q, "points") /\ known[q] # Nil
    /\ req[p].id = req[q].id
    /\ resp[p] = resp[q]
    /\ resp[p].status = 200
    /\ Cardinality(DOMAIN data) = NumUUIDs
    /\ \E x, y \in DOMAIN data :
         calculatePoints(data[x], goarch) # calculatePoints(data[y], goarch)

\* This step is one of worker p's request
StepOf(p) == pc'[p] # pc[p] \/ req'[p] # req[p] \/ resp'[p] # resp[p]

\* Worker p's request of this kind is answered in this step
Answers(p, kind) == req'[p].kind = kind /\ pc'[p] = "idle" /\ StepOf(p)

\* Each stored receipt is stored under its own ID, and no two share an identifier
OwnIdentifiers ==
  /\ \A id \in DOMAIN data : data[id].ID = id
  /\ \A x, y \in DOMAIN data : data[x].ID = data[y].ID => x = y

\* C22: the frame of the two boundary operations. No step of a points request
\* changes the store; a Submit that is rejected is answered with the store as its
\* handler found it; a Submit that is accepted is answered with exactly one entry
\* added, under the identifier it returns and holding its receipt, and no entry that
\* was there changed; the store changes in no other way. So each stored receipt is
\* stored under its own ID and no two stored receipts share an identifier.
C22_Frame ==
  [][/\ \A p \in Workers :
          /\ (req'[p].kind = "points" /\ StepOf(p)) => data' = data
          /\ (Answers(p, "submit") /\ resp'[p].status # 200) =>
               /\ data' = data
               /\ pc[p] # "idle" => data = pre[p]
          /\ (Answers(p, "submit") /\ resp'[p].status = 200) =>
               /\ resp'[p] = writeJSONId(200, op[p].receipt[1].ID)
               /\ resp'[p].id \notin DOMAIN pre[p]
               /\ data' = MapAssign(pre[p], resp'[p].id, op[p].receipt[1])
     /\ data' # data =>
          \E p \in Workers :
            /\ req[p].kind = "submit" /\ StepOf(p)
            /\ DOMAIN data' # DOMAIN data
            /\ \A id \in DOMAIN data : id \in DOMAIN data' /\ data'[id] = data[id]
            /\ Cardinality(DOMAIN data') = Cardinality(DOMAIN data) + 1
     /\ OwnIdentifiers']_vars

\* An accepted Submit answered with a second receipt stored, beside a Submit that was
\* refused the identifier of the first and answered 500
C22_Witness ==
  \E p, q \in Workers :
    /\ Answered(p, "submit") /\ resp[p].status = 200
    /\ Answered(q, "submit") /\ resp[q].status = 500
    /\ Cardinality(DOMAIN data) = 2
    /\ resp[p].id \in DOMAIN data
    /\ data[resp[p].id].ID = resp[p].id

(***************************************************************************)
(* The field validators' contract (SpecFields)                             *)
(***************************************************************************)

\* The error the specification names for each field type
OwnError(f) ==
  CASE f = "ReceiptRetailer" -> "ErrInvalidReceiptRetailerFormat"
    [] f = "ReceiptShortDescription" -> "ErrInvalidReceiptDescriptionFormat"
    [] f = "ReceiptPurchaseDate" -> "ErrInvalidReceiptPurchaseDateFormat"
    [] f = "ReceiptPurchaseTime" -> "ErrInvalidReceiptPurchaseTimeFormat"
    [] f = "ReceiptAmount" -> "ErrInvalidReceiptAmountFormat"

Rejected(r) == r.err # "nil"

\* C12: whenever a field validator rejects its input, whether the JSON value is not a
\* string or its text fails the pattern, the error it returns is the error of its own
\* field: never another field's error, never a decoding error of the library.
C12_OwnError ==
  (unmarshalled.done /\ Rejected(unmarshalled.whole))
    => unmarshalled.whole.err = OwnError(field)

\* The retailer, date and time validators do return their own error for every rejection,
\* and the amount validator does for every string it rejects
C12_OwnErrorElsewhere ==
  (/\ unmarshalled.done
   /\ Rejected(unmarshalled.whole)
   /\ field # "ReceiptShortDescription"
   /\ (field = "ReceiptAmount" => jsonText.k = "str"))
    => unmarshalled.whole.err = OwnError(field)

\* The field's pattern
Pattern(f, s) ==
  CASE f = "ReceiptRetailer" -> retailerRX(s)
    [] f = "ReceiptShortDescription" -> shortDescriptionRX(s)
    [] f = "ReceiptPurchaseDate" -> dateRX(s)
    [] f = "ReceiptPurchaseTime" -> timeRX(s)
    [] f = "ReceiptAmount" -> amountRX(s)

\* The digits of s, a text matching the amount pattern, without its point
Cents(s) ==
  StripZeros([i \in 1..(Len(s) - 1) |-> DigitVal(IF i <= Len(s) - 3 THEN s[i] ELSE s[i + 1])])

\* A text matching its pattern names a value of the field's type: a date is a day of
\* the calendar, an amount is below the halfway point between the greatest float32
\* and 2^128 (from there on the nearest float32 is infinite)
Representable(f, s) ==
  CASE f = "ReceiptPurchaseDate" ->
         TwoDigits(s, 9) <= DaysIn(100 * TwoDigits(s, 1) + TwoDigits(s, 3), TwoDigits(s, 6))
    [] f = "ReceiptAmount" ->
         ~DecGE(Cents(s), Cents(aHalfway))
    [] OTHER -> TRUE

Accepted(r) == r.err = "nil"

\* What every validator does with the white space around a string
TrimsAround ==
  /\ (field \in {"ReceiptRetailer", "ReceiptShortDescription"} /\ Accepted(unmarshalled.whole))
       => unmarshalled.whole.val = bareText.s
  /\ unmarshalled.whole = unmarshalled.bare

\* C13 as stated: a raw string is accepted exactly when its trimmed form matches the
\* field's pattern; an accepted retailer or description is the trimmed input, inner
\* white space unchanged; the padded and the trimmed value parse to the same result.
C13_AcceptedIffPattern ==
  (unmarshalled.done /\ jsonText.k = "str") =>
    /\ Accepted(unmarshalled.whole) <=> Pattern(field, bareText.s)
    /\ TrimsAround

\* C13: a raw string is accepted exactly when its trimmed form matches the field's
\* pattern and names a value of the field's type (a date that is a day of the
\* calendar, an amount that float32 can hold); an accepted retailer or description is
\* the trimmed input, inner white space unchanged; the padded and the trimmed value
\* parse to the same result.
C13_AcceptedIffPatternAndValue ==
  (unmarshalled.done /\ jsonText.k = "str") =>
    /\ Accepted(unmarshalled.whole)
         <=> (Pattern(field, bareText.s) /\ Representable(field, bareText.s))
    /\ TrimsAround

C13_Witness ==
  /\ unmarshalled.done
  /\ field = "ReceiptShortDescription"
  /\ bareText.s = sMountainDew
  /\ Len(jsonText.s) = Len(sMountainDew) + 3
  /\ Accepted(unmarshalled.whole)
  /\ unmarshalled.whole.val = sMountainDew

(***************************************************************************)
(* The middleware's contract (SpecLimit)                                   *)
(***************************************************************************)

\* The goroutines between mu.Lock() and mu.Unlock()
Holders ==
  {p \in Workers : rl[p].pc \in {"locked", "allowed", "refused"}}
    \cup (IF sweeper.pc = "locked" THEN {"sweeper"} ELSE {})

\* Worker p's request is decided in this step, with its IP's history h, at time t
Decided(p) == rl[p].pc = "locked" /\ rl'[p].pc \in {"allowed", "refused"}

AtFirstInstant(h, t) == h.n = 0 \/ h.first = t

\* Worker p's request is answered in this step
AnsweredLimit(p) == rl[p].pc \in {"allowed", "refused"} /\ rl'[p].pc = "idle"

\* C16: with the limiter enabled with burst b, per IP: a request decided when fewer than
\* b requests of the IP were decided, all at this same time, is allowed; the request
\* decided after b such requests at that same time is refused; a request decided one
\* unit of time (1/rps seconds) or more after the IP's last allowed request is allowed.
\* An allowed request goes to the next handler with nothing written, a refused one is
\* answered 429 "rate limit exceeded" without the next handler. With the limiter
\* disabled every request goes to the next handler. The mutex is held by exactly the
\* goroutines between Lock and Unlock, and its holder can always take a step.
C16_RateLimit ==
  [][/\ \A p \in Workers :
          /\ Decided(p) =>
               /\ (seen[rl[p].ip].n < limiterCfg.burst /\ AtFirstInstant(seen[rl[p].ip], elapsed))
                    => rl'[p].pc = "allowed"
               /\ (seen[rl[p].ip].n = limiterCfg.burst /\ AtFirstInstant(seen[rl[p].ip], elapsed))
                    => rl'[p].pc = "refused"
               /\ (seen[rl[p].ip].passed >= 0 /\ elapsed >= seen[rl[p].ip].passed + 1)
                    => rl'[p].pc = "allowed"
          /\ AnsweredLimit(p) =>
               IF rl[p].pc = "allowed" THEN rl'[p].next /\ rl'[p].resp = NoResp
               ELSE ~rl'[p].next /\ rl'[p].resp = rateLimitExceededResponse
          /\ (~limiterCfg.enabled /\ rl'[p] # rl[p]) => (rl'[p].next /\ rl'[p].pc = "idle")
     /\ clientsMu = Holders
     /\ Cardinality(Holders) <= 1
     /\ clientsMu # {} =>
          ENABLED (Sweep \/ \E p \in Workers : RateLimitCheck(p) \/ RateLimitUnlock(p))]_vars

\* One worker has been refused with 429 and the other is allowed, after time has
\* passed, for an IP whose bucket is empty again, while both IPs have clients
C16_Witness ==
  \E p, q \in Workers :
    /\ rl[p].resp = rateLimitExceededResponse
    /\ rl[q].pc = "allowed"
    /\ elapsed >= 1
    /\ seen[rl[q].ip].passed = elapsed
    /\ clients[rl[q].ip].limiter.tokens = 0
    /\ DOMAIN clients = IPs
    /\ limiterCfg.burst = MaxBurst

\* C17: when the wrapped handler panics, the response is the 500 with the generic
\* server-error message and carries Connection: close, and nothing else is written;
\* when it does not panic, the response is what the handler wrote and no more.
C17_RecoverPanic ==
  rr.served =>
    IF wrapped.panic # ""
    THEN /\ rr.status = 500
         /\ rr.connection = "close"
         /\ rr.body = << serverErrorResponse >>
    ELSE /\ rr.connection = ""
         /\ rr.status = wrapped.resp.status
         /\ rr.body = IF wrapped.resp = NoResp THEN << >> ELSE << wrapped.resp >>

\* The test's handler: panic("test panic")
C17_Witness ==
  /\ rr.served
  /\ wrapped = [resp |-> NoResp, panic |-> "test panic"]
  /\ rr.status = 500
  /\ rr.connection = "close"

(***************************************************************************)
(* The points rules (SpecPoints)                                           *)
(*                                                                         *)
(* Each rule's contribution is computed here on its own and exactly, from  *)
(* the value the receipt holds: an amount m * 2^e is a whole number when   *)
(* e >= 0 or 2^-e divides m.                                               *)
(***************************************************************************)

IsWhole(m, e) ==
  IF e >= 0 \/ m = 0 THEN TRUE
  ELSE IF -e >= 24 THEN FALSE
  ELSE m % Pow2(-e) = 0

\* ceil(x / 5) for an amount x >= 0 below 2^30
CeilFifth(x) ==
  IF x.m = 0 THEN 0
  ELSE IF x.e >= 0 THEN (x.m * Pow2(x.e) + 4) \div 5
  ELSE IF -x.e >= 24 THEN 1
  ELSE (x.m + 5 * Pow2(-x.e) - 1) \div (5 * Pow2(-x.e))

RetailerRule(receipt) ==
  LET name == TrimSpace(receipt.Retailer)
  IN  Cardinality({i \in 1..Len(name) : IsWord(name[i]) /\ name[i] # "_"})

RoundDollarRule(receipt) ==
  IF IsWhole(receipt.Total.m, receipt.Total.e) THEN 50 ELSE 0

QuarterRule(receipt) ==
  IF IsWhole(receipt.Total.m, receipt.Total.e + 2) THEN 25 ELSE 0

PairRule(receipt) == 5 * (Len(receipt.Items) \div 2)

DescriptionRule(receipt) ==
  LET n == Len(receipt.Items)
      sum[i \in 0..n] ==
        IF i = 0 THEN 0
        ELSE sum[i - 1] +
             (IF Len(TrimSpace(receipt.Items[i].ShortDescription)) % 3 = 0
              THEN CeilFifth(receipt.Items[i].Price) ELSE 0)
  IN  sum[n]

OddDayRule(receipt) == IF receipt.PurchaseDate.D % 2 = 1 THEN 6 ELSE 0

AfternoonRule(receipt) == IF receipt.PurchaseTime.h \in {14, 15} THEN 10 ELSE 0

\* The spec's worked receipts
WorkedTarget == Sample(sTarget, d20220101, t1301, TargetPayload.items.a, a3535)

WorkedRetailer123 == Sample(sRetailer123, d20241213, t1500, MilkPayload.items.a, a10000)

WorkedShop42 ==
  Sample(sShop42, d20241213, t1600, << JItem(JStr(sJuice), JStr(a375)) >>, a9999)

Scored(receipt) == [receipt EXCEPT !.scored = TRUE]

\* C6: calculatePoints(receipt) is the sum of the seven rules' contributions, each
\* computed on its own: one per letter or digit of the retailer, 50 for a total
\* without cents, 25 for a total that is a multiple of 0.25, 5 per pair of items,
\* ceil(price * 0.2) per item whose trimmed description length is a multiple of 3, 6
\* for an odd day, 10 for an hour of 14 or 15; and the worked receipts score 28, 107
\* and 12.
C6_SumOfRules ==
  sample.scored =>
    /\ points = RetailerRule(sample) + RoundDollarRule(sample) + QuarterRule(sample)
                + PairRule(sample) + DescriptionRule(sample) + OddDayRule(sample)
                + AfternoonRule(sample)
    /\ sample = Scored(WorkedTarget) => points = 28
    /\ sample = Scored(WorkedRetailer123) => points = 107
    /\ sample = Scored(WorkedShop42) => points = 12

\* The total's text ends in the cents 00
WholeDollars(text) == text[Len(text) - 1] = "0" /\ text[Len(text)] = "0"

\* C7: for every receipt whose total was given as a whole-dollar amount, of however
\* many digits, calculatePoints counts both the 50 of the round-dollar rule and the 25
\* of the quarter rule on top of the other five rules' contributions.
C7_WholeDollarTotals ==
  (sample.scored /\ WholeDollars(sample.TotalText)) =>
    points = RetailerRule(sample) + 50 + 25 + PairRule(sample) + DescriptionRule(sample)
             + OddDayRule(sample) + AfternoonRule(sample)

\* What holds of whole-dollar totals: the 25 is always counted, and the 50 too when the
\* amount is below 2^63
C7_BelowInt64 ==
  (sample.scored /\ WholeDollars(sample.TotalText)) =>
    /\ points >= RetailerRule(sample) + 25 + PairRule(sample) + DescriptionRule(sample)
                 + OddDayRule(sample) + AfternoonRule(sample)
    /\ sample.Total.e < 40 =>
         points = RetailerRule(sample) + 50 + 25 + PairRule(sample)
                  + DescriptionRule(sample) + OddDayRule(sample) + AfternoonRule(sample)

\* The worked receipts' scores alone
C6_WorkedReceipts ==
  sample.scored =>
    /\ sample = Scored(WorkedTarget) => points = 28
    /\ sample = Scored(WorkedRetailer123) => points = 107
    /\ sample = Scored(WorkedShop42) => points = 12

\* The total's text ends in the cents 00, 25, 50 or 75
QuarterCents(text) ==
  << text[Len(text) - 1], text[Len(text)] >>
    \in { << "0", "0" >>, << "2", "5" >>, << "5", "0" >>, << "7", "5" >> }

\* What the five rules that do not read the total contribute
OtherRules(receipt) ==
  RetailerRule(receipt) + PairRule(receipt) + DescriptionRule(receipt)
  + OddDayRule(receipt) + AfternoonRule(receipt)

\* What the round-dollar and quarter rules added to a score
TotalBonus(score, receipt) == score - OtherRules(receipt)

\* C18: for every accepted total string, calculatePoints counts the 50 of the
\* round-dollar rule only if the submitted cents are 00 and the 25 of the quarter rule
\* only if the submitted cents are 00, 25, 50 or 75; the conversion to float32 never
\* turns a total such as 99.99, or one with many integer digits, into one that earns
\* either bonus.
C18_BonusOnlyForCents ==
  sample.scored =>
    /\ TotalBonus(points, sample) >= 50 => WholeDollars(sample.TotalText)
    /\ TotalBonus(points, sample) \in {25, 75} => QuarterCents(sample.TotalText)

\* What holds of the totals below 2^18, where float32 values lie at most 1/64 apart and
\* a rounding moves a total by less than a cent: the bonuses follow the submitted cents
C18_BelowSpacing ==
  (sample.scored /\ sample.Total.e <= -6) =>
    /\ TotalBonus(points, sample) >= 50 => WholeDollars(sample.TotalText)
    /\ TotalBonus(points, sample) \in {25, 75} => QuarterCents(sample.TotalText)

\* C19: as TestCalculatePoints asserts, calculatePoints returns 50 + 25 + 10 + 6 + 12
\* + 100 = 203 for the receipt of "Retailer123" (total 100.00, 2024-12-13, 15:00, Milk
\* 2.50 and Bread 1.50) and 9 for the receipt of "Shop#42" (total 99.99, 2024-12-13,
\* 16:00, Juice 3.75).
C19_TestCalculatePoints ==
  sample.scored =>
    /\ sample = Scored(WorkedRetailer123) => points = 203
    /\ sample = Scored(WorkedShop42) => points = 9

====
